---- MODULE Spec2Model ----
(***************************************************************************)
(* Verification model of the anomaly-detection service.                    *)
(*                                                                         *)
(* Part I   - the resilience primitive (utils/resilience/circuit_breaker). *)
(* Part II  - the correlation engine, the validator and the tier           *)
(*            orchestrator (detection/...).                                *)
(*                                                                         *)
(* Numbers that are fractions in the program are scaled to integers:       *)
(* confidences and weights in hundredths (0.8 -> 80), correlation scores   *)
(* in ten-thousandths (0.7 -> 7000), group confidences in millionths.      *)
(***************************************************************************)
EXTENDS Integers, Sequences, FiniteSets, TLC

VARIABLES
    \* ---- Part I: CircuitBreaker / ResilientService ----
    breaker,        \* CircuitBreaker fields: state, failure_count, success_count, last_failure_time
    now,            \* the clock read by datetime.utcnow(), in seconds
    pc,             \* per caller: "idle", or "running" while the wrapped operation is awaited
    last_call,      \* what the most recently finished ResilientService.execute did
    has_fallback,   \* ResilientService.fallback_func is set
    fail_run,       \* history: failed calls finished since the last successful one
    succ_run,       \* history: successful calls finished in HALF_OPEN since the last failed one
    \* ---- Part II: TieredAnomalyProcessor ----
    frame,          \* per worker: the call of process_flow_logs it is in (its arguments and locals)
    \* ---- Part III: MLModelManager ----
    manager,        \* models (the clients), model_health, and what the last operation did
    \* ---- Part IV: MultiStageValidationEngine._calculate_priority ----
    assessment,     \* a call of _calculate_priority: its arguments and, once done, its result
    \* ---- Part V: CorrelationStateManager ----
    store,          \* the Redis keys, the clock, the manager instances, and what the last call did
    \* ---- Part VI: ServiceResilienceManager ----
    service,        \* global_metrics, and how often a fallback was invoked
    \* ---- Part VII: EventPublisherManager ----
    publisher       \* the two publishers, _metrics, and what the last call did

breakerVars == <<breaker, now, pc, last_call, has_fallback, fail_run, succ_run>>

pipeVars == <<frame>>

managerVars == <<manager>>

vars == <<breaker, now, pc, last_call, has_fallback, fail_run, succ_run, frame, manager, assessment, store, service, publisher>>

-----------------------------------------------------------------------------
(* Bounds of the model *)

NumCallers == 2         \* tasks that call the same breaker
MaxTime == 5            \* the clock stops here
NumWorkers == 2         \* workers that call process_flow_logs of one processor
MaxActive == 2          \* detectors that find something (or raise) in one batch

(* port_scan_threshold of the processor's configuration, in place of the default 20 *)
port_threshold == 9

(* CircuitBreakerConfig, with small values in place of the defaults 5 / 60 / 3 *)
failure_threshold == 3
recovery_timeout == 2
success_threshold == 2

Callers == 1..NumCallers
None == -1

-----------------------------------------------------------------------------
(* Part I: CircuitBreaker *)

CLOSED == "closed"
OPEN == "open"
HALF_OPEN == "half_open"

\* CircuitBreaker.__init__
NewCircuitBreaker ==
    [state |-> CLOSED, failure_count |-> 0, success_count |-> 0, last_failure_time |-> None]

\* Mutant: the recovery timeout is taken one second short
should_attempt_reset_early(b, t) ==
    IF b.last_failure_time = None
    THEN TRUE
    ELSE t - b.last_failure_time >= recovery_timeout - 1

\* CircuitBreaker._should_attempt_reset at clock t
should_attempt_reset(b, t) ==
    IF b.last_failure_time = None
    THEN TRUE
    ELSE t - b.last_failure_time >= recovery_timeout

\* Mutant: closing the breaker keeps the count of successes
on_success_keeps_count(b) ==
    LET b1 == [b EXCEPT !.failure_count = 0] IN
    IF b1.state = HALF_OPEN
    THEN LET b2 == [b1 EXCEPT !.success_count = @ + 1] IN
         IF b2.success_count >= success_threshold
         THEN [b2 EXCEPT !.state = CLOSED]
         ELSE b2
    ELSE b1

\* CircuitBreaker._on_success
on_success(b) ==
    LET b1 == [b EXCEPT !.failure_count = 0] IN
    IF b1.state = HALF_OPEN
    THEN LET b2 == [b1 EXCEPT !.success_count = @ + 1] IN
         IF b2.success_count >= success_threshold
         THEN [b2 EXCEPT !.state = CLOSED, !.success_count = 0]
         ELSE b2
    ELSE b1

\* Mutant: the threshold is compared with > in place of >=
on_failure_late(b, t) ==
    LET b1 == [b EXCEPT !.failure_count = @ + 1, !.last_failure_time = t] IN
    IF b1.failure_count > failure_threshold
    THEN [b1 EXCEPT !.state = OPEN, !.success_count = 0]
    ELSE b1

\* CircuitBreaker._on_failure at clock t
on_failure(b, t) ==
    LET b1 == [b EXCEPT !.failure_count = @ + 1, !.last_failure_time = t] IN
    IF b1.failure_count >= failure_threshold
    THEN [b1 EXCEPT !.state = OPEN, !.success_count = 0]
    ELSE b1

\* Mutant: an open breaker never lets a call probe the service
call_gate_never_probes(b, t) ==
    IF b.state = OPEN
    THEN [admitted |-> FALSE, breaker |-> b]
    ELSE [admitted |-> TRUE, breaker |-> b]

\* Mutant: a rejected call is counted as one more failure
call_gate_counts_rejection(b, t) ==
    IF b.state = OPEN
    THEN IF should_attempt_reset(b, t)
         THEN [admitted |-> TRUE, breaker |-> [b EXCEPT !.state = HALF_OPEN]]
         ELSE [admitted |-> FALSE, breaker |-> on_failure(b, t)]
    ELSE [admitted |-> TRUE, breaker |-> b]

\* The locked head of CircuitBreaker.call: is the call admitted, and the breaker after it
call_gate(b, t) ==
    IF b.state = OPEN
    THEN IF should_attempt_reset(b, t)
         THEN [admitted |-> TRUE, breaker |-> [b EXCEPT !.state = HALF_OPEN]]
         ELSE [admitted |-> FALSE, breaker |-> b]
    ELSE [admitted |-> TRUE, breaker |-> b]

\* Mutant: the fallback is tried only for errors of the operation, not for an open breaker
execute_result_no_fallback_when_open(c, primary, exc, fb, seq) ==
    IF exc = "none"
    THEN [caller |-> c, primary |-> primary, call_raised |-> exc,
          fallback |-> "not_invoked",
          returned |-> "primary", raised |-> "none", seq |-> seq]
    ELSE IF has_fallback /\ primary /= "not_invoked"
         THEN [caller |-> c, primary |-> primary, call_raised |-> exc,
               fallback |-> fb,
               returned |-> IF fb = "ok" THEN "fallback" ELSE "nothing",
               raised |-> IF fb = "ok" THEN "none" ELSE "FallbackError",
               seq |-> seq]
         ELSE [caller |-> c, primary |-> primary, call_raised |-> exc,
               fallback |-> "not_invoked",
               returned |-> "nothing", raised |-> exc, seq |-> seq]

(* ResilientService.execute, after circuit_breaker.call has ended:            *)
(* primary is "ok", "error", "timeout" or "not_invoked" (breaker open),       *)
(* exc the exception call raised ("none" when it returned), fb the outcome    *)
(* of the fallback function should it be invoked.                             *)
execute_result(c, primary, exc, fb, seq) ==
    IF exc = "none"
    THEN [caller |-> c, primary |-> primary, call_raised |-> exc,
          fallback |-> "not_invoked",
          returned |-> "primary", raised |-> "none", seq |-> seq]
    ELSE IF has_fallback
         THEN [caller |-> c, primary |-> primary, call_raised |-> exc,
               fallback |-> fb,
               returned |-> IF fb = "ok" THEN "fallback" ELSE "nothing",
               raised |-> IF fb = "ok" THEN "none" ELSE "FallbackError",
               seq |-> seq]
         ELSE [caller |-> c, primary |-> primary, call_raised |-> exc,
               fallback |-> "not_invoked",
               returned |-> "nothing", raised |-> exc, seq |-> seq]

FallbackOutcomes == {"ok", "error"}

NoCall ==
    [caller |-> 0, primary |-> "not_invoked", call_raised |-> "none",
     fallback |-> "not_invoked",
     returned |-> "nothing", raised |-> "none", seq |-> 0]

BreakerInit ==
    /\ breaker = NewCircuitBreaker
    /\ now = 0
    /\ pc = [c \in Callers |-> "idle"]
    /\ last_call = NoCall
    /\ has_fallback \in BOOLEAN
    /\ fail_run = 0
    /\ succ_run = 0

\* Time passes
Tick ==
    /\ now < MaxTime
    /\ now' = now + 1
    /\ UNCHANGED <<breaker, pc, last_call, has_fallback, fail_run, succ_run, frame, manager, assessment, store, service, publisher>>

\* execute -> call, up to the await of the wrapped operation (or the rejection)
Call(c) ==
    /\ pc[c] = "idle"
    /\ LET g == call_gate(breaker, now) IN
       /\ breaker' = g.breaker
       /\ IF g.admitted
          THEN /\ pc' = [pc EXCEPT ![c] = "running"]
               /\ succ_run' = IF breaker.state = OPEN THEN 0 ELSE succ_run
               /\ UNCHANGED last_call
          ELSE /\ \E fb \in FallbackOutcomes :
                    last_call' = execute_result(c, "not_invoked", "CircuitBreakerError",
                                                fb, 1 - last_call.seq)
               /\ UNCHANGED <<pc, succ_run>>
    /\ UNCHANGED <<now, has_fallback, fail_run, frame, manager, assessment, store, service, publisher>>

\* The wrapped operation returns within the timeout
Succeed(c) ==
    /\ pc[c] = "running"
    /\ breaker' = on_success(breaker)
    /\ pc' = [pc EXCEPT ![c] = "idle"]
    /\ last_call' = execute_result(c, "ok", "none", "ok", 1 - last_call.seq)
    /\ fail_run' = 0
    /\ succ_run' = IF breaker.state = HALF_OPEN THEN succ_run + 1 ELSE succ_run
    /\ UNCHANGED <<now, has_fallback, frame, manager, assessment, store, service, publisher>>

\* The wrapped operation raises
FailError(c) ==
    /\ pc[c] = "running"
    /\ breaker' = on_failure(breaker, now)
    /\ pc' = [pc EXCEPT ![c] = "idle"]
    /\ \E fb \in FallbackOutcomes :
          last_call' = execute_result(c, "error", "Exception", fb, 1 - last_call.seq)
    /\ fail_run' = fail_run + 1
    /\ succ_run' = 0
    /\ UNCHANGED <<now, has_fallback, frame, manager, assessment, store, service, publisher>>

(* The wrapped operation exceeds config.timeout. Up to Python 3.10 the second *)
(* except clause turns asyncio.TimeoutError into CircuitBreakerError; from    *)
(* 3.11 it is a subclass of Exception and the first clause re-raises it.      *)
FailTimeout(c) ==
    /\ pc[c] = "running"
    /\ breaker' = on_failure(breaker, now)
    /\ pc' = [pc EXCEPT ![c] = "idle"]
    /\ \E fb \in FallbackOutcomes, exc \in {"CircuitBreakerError", "TimeoutError"} :
          last_call' = execute_result(c, "timeout", exc, fb, 1 - last_call.seq)
    /\ fail_run' = fail_run + 1
    /\ succ_run' = 0
    /\ UNCHANGED <<now, has_fallback, frame, manager, assessment, store, service, publisher>>

NoneRunning == \A c \in Callers : pc[c] = "idle"

-----------------------------------------------------------------------------
(* Part II: anomalies, correlation engine, validator, tier orchestrator *)

\* An address "a.b.c.d" is the pair <<a.b.c, d>>; NoIp stands for a missing or empty one
NoIp == <<0, 0>>

\* Seconds since Monday 00:00 stand for datetime values
hour_of(t) == (t \div 3600) % 24
weekday_of(t) == (t \div 86400) % 7

(* The anomaly dataclasses of the detectors and ML models as one record type:  *)
(* an attribute a class does not have is None, NoIp, 0 or <<>>. oid is the     *)
(* identity of the object (a pair of a tag and a number); connections and     *)
(* flow_log (no record or one) are what it was built from.                     *)
NewAnomaly(oid, threat, ts) ==
    [oid |-> oid, threat_type |-> threat, detection_timestamp |-> ts,
     confidence_score |-> None, confidence |-> None,
     source_ip |-> NoIp, destination_ip |-> NoIp, target_ip |-> NoIp,
     destination_port |-> 0, target_port |-> 0,
     unique_ports |-> 0, packet_rate |-> 0, source_count |-> 0,
     coefficient_variation |-> 0, data_volume |-> 0, tor_nodes |-> 0,
     connections |-> <<>>, flow_log |-> <<>>]

PortScanAnomaly(oid, src, ports, conns, conf, ts) ==
    [NewAnomaly(oid, "PORT_SCANNING", ts) EXCEPT
        !.source_ip = src, !.unique_ports = ports, !.connections = conns,
        !.confidence_score = conf]

DDoSAnomaly(oid, tip, tport, rate, sources, conf, ts) ==
    [NewAnomaly(oid, "DDOS", ts) EXCEPT
        !.target_ip = tip, !.target_port = tport, !.packet_rate = rate,
        !.source_count = sources, !.confidence_score = conf]

C2BeaconingAnomaly(oid, src, dip, dport, cv, conf, ts) ==
    [NewAnomaly(oid, "C2_BEACONING", ts) EXCEPT
        !.source_ip = src, !.destination_ip = dip, !.destination_port = dport,
        !.coefficient_variation = cv, !.confidence_score = conf]

CryptoMiningAnomaly(oid, src, volume, conf, ts) ==
    [NewAnomaly(oid, "CRYPTO_MINING", ts) EXCEPT
        !.source_ip = src, !.data_volume = volume, !.confidence_score = conf]

TorUsageAnomaly(oid, src, nodes, conf, ts) ==
    [NewAnomaly(oid, "TOR_USAGE", ts) EXCEPT
        !.source_ip = src, !.tor_nodes = nodes, !.confidence_score = conf]

\* MLAnomaly and BaselineDeviation carry `confidence`, not `confidence_score`
MLAnomaly(oid, log, conf, ts) ==
    [NewAnomaly(oid, "ML_BEHAVIORAL_ANOMALY", ts) EXCEPT
        !.flow_log = log, !.confidence = conf]

BaselineDeviation(oid, log, conf, ts) ==
    [NewAnomaly(oid, "BEHAVIORAL_DEVIATION", ts) EXCEPT
        !.flow_log = log, !.confidence = conf]

\* getattr(anomaly, 'confidence_score', 0.5), in hundredths
confidence_or_default(a) ==
    IF a.confidence_score = None THEN 50 ELSE a.confidence_score

\* getattr(a, 'destination_ip', getattr(a, 'target_ip', None))
dest_ip_of(a) == IF a.destination_ip /= NoIp THEN a.destination_ip ELSE a.target_ip

\* getattr(a, 'destination_port', getattr(a, 'target_port', None))
dest_port_of(a) == IF a.destination_port /= 0 THEN a.destination_port ELSE a.target_port

Abs(x) == IF x < 0 THEN -x ELSE x
Min(x, y) == IF x < y THEN x ELSE y

-----------------------------------------------------------------------------
(* MultiDimensionalCorrelationEngine *)

time_window == 300
entity_correlation_threshold == 7000

\* threat_correlation_weights, in hundredths
threat_correlation_weights ==
    [PORT_SCANNING |-> [DDOS |-> 80, C2_BEACONING |-> 30, CRYPTO_MINING |-> 20],
     DDOS |-> [PORT_SCANNING |-> 80, CRYPTO_MINING |-> 20, TOR_USAGE |-> 30],
     C2_BEACONING |-> [CRYPTO_MINING |-> 60, TOR_USAGE |-> 70, PORT_SCANNING |-> 30],
     CRYPTO_MINING |-> [C2_BEACONING |-> 60, TOR_USAGE |-> 50, DDOS |-> 20],
     TOR_USAGE |-> [C2_BEACONING |-> 70, CRYPTO_MINING |-> 50, PORT_SCANNING |-> 40],
     ML_BEHAVIORAL_ANOMALY |-> [PORT_SCANNING |-> 50, DDOS |-> 50, C2_BEACONING |-> 60],
     BEHAVIORAL_DEVIATION |-> [C2_BEACONING |-> 70, CRYPTO_MINING |-> 60, TOR_USAGE |-> 50]]

\* _calculate_temporal_correlation, in ten-thousandths
calculate_temporal_correlation(a1, a2) ==
    LET time_diff == Abs(a1.detection_timestamp - a2.detection_timestamp) IN
    IF time_diff <= time_window
    THEN 10000 - (time_diff * 10000) \div time_window
    ELSE 0

\* _same_subnet: the first three octets agree
same_subnet(ip1, ip2) == ip1[1] = ip2[1]

\* _calculate_entity_correlation, in hundredths
calculate_entity_correlation(a1, a2) ==
    LET source1 == a1.source_ip
        source2 == a2.source_ip
        dest1 == dest_ip_of(a1)
        dest2 == dest_ip_of(a2)
        port1 == dest_port_of(a1)
        port2 == dest_port_of(a2)
        both_sources == source1 /= NoIp /\ source2 /= NoIp
    IN Min(100,
           (IF both_sources /\ source1 = source2 THEN 50 ELSE 0)
         + (IF dest1 /= NoIp /\ dest2 /= NoIp /\ dest1 = dest2 THEN 30 ELSE 0)
         + (IF port1 /= 0 /\ port2 /= 0 /\ port1 = port2 THEN 20 ELSE 0)
         + (IF both_sources /\ same_subnet(source1, source2) THEN 10 ELSE 0))

\* _calculate_threat_correlation, in hundredths: the row is that of the FIRST anomaly
calculate_threat_correlation(a1, a2) ==
    IF a1.threat_type = a2.threat_type
    THEN 100
    ELSE IF a1.threat_type \in DOMAIN threat_correlation_weights
         THEN LET weights == threat_correlation_weights[a1.threat_type] IN
              IF a2.threat_type \in DOMAIN weights THEN weights[a2.threat_type] ELSE 0
         ELSE 0

\* _calculate_correlation_score, in ten-thousandths: 0.4 temporal + 0.4 entity + 0.2 threat
calculate_correlation_score(a1, a2) ==
    Min(10000,
        (4 * calculate_temporal_correlation(a1, a2)
         + 4 * 100 * calculate_entity_correlation(a1, a2)
         + 2 * 100 * calculate_threat_correlation(a1, a2)) \div 10)

RECURSIVE sum_weighted_confidence(_)
\* sum of confidence * correlation_score over the related anomalies, in millionths
sum_weighted_confidence(rel) ==
    IF rel = <<>> THEN 0
    ELSE confidence_or_default(Head(rel).anomaly) * Head(rel).correlation_score
         + sum_weighted_confidence(Tail(rel))

RECURSIVE sum_correlation(_)
\* sum of correlation_score over the related anomalies
sum_correlation(rel) ==
    IF rel = <<>> THEN 0
    ELSE Head(rel).correlation_score + sum_correlation(Tail(rel))

(* MultiDimensionalCorrelationEngine._calculate_group_confidence, in          *)
(* millionths: total_score / total_weight + bonus, with the common factor      *)
(* 0.5 / len(related) taken out of numerator and denominator.                  *)
engine_group_confidence(primary, related) ==
    IF related = <<>>
    THEN 10000 * confidence_or_default(primary)
    ELSE LET k == Len(related)
             num == k * confidence_or_default(primary) * 10000
                        + sum_weighted_confidence(related)
             den == k * 10000 + sum_correlation(related)
             bonus == Min(k * 100000, 300000)
         IN Min(1000000, (num \div den) * 10000 + ((num % den) * 10000) \div den + bonus)

\* _create_single_anomaly_group
create_single_anomaly_group(a) ==
    [primary_anomaly |-> a, related_anomalies |-> <<>>,
     group_confidence |-> 10000 * confidence_or_default(a)]

RECURSIVE insert_by_timestamp(_, _)
insert_by_timestamp(a, s) ==
    IF s = <<>> THEN <<a>>
    ELSE IF a.detection_timestamp < Head(s).detection_timestamp
         THEN <<a>> \o s
         ELSE <<Head(s)>> \o insert_by_timestamp(a, Tail(s))

RECURSIVE sorted_by_timestamp(_)
\* sorted(anomalies, key=detection_timestamp): stable
sorted_by_timestamp(s) ==
    IF s = <<>> THEN <<>>
    ELSE insert_by_timestamp(s[Len(s)], sorted_by_timestamp(SubSeq(s, 1, Len(s) - 1)))

RECURSIVE find_related_unmarked(_, _, _, _)
\* Mutant: a related anomaly is attached but not added to processed_anomalies
find_related_unmarked(s, i, j, acc) ==
    IF j > Len(s) THEN acc
    ELSE IF j \in acc.processed THEN find_related_unmarked(s, i, j + 1, acc)
    ELSE LET score == calculate_correlation_score(s[i], s[j]) IN
         IF score > entity_correlation_threshold
         THEN find_related_unmarked(s, i, j + 1,
                  [acc EXCEPT !.related =
                       Append(@, [anomaly |-> s[j], correlation_score |-> score])])
         ELSE find_related_unmarked(s, i, j + 1, acc)

RECURSIVE find_related(_, _, _, _)
(* The inner loop of correlate_anomalies from index j on: acc.related are the  *)
(* anomalies attached to the group of s[i], acc.processed the indices used.    *)
find_related(s, i, j, acc) ==
    IF j > Len(s) THEN acc
    ELSE IF j \in acc.processed THEN find_related(s, i, j + 1, acc)
    ELSE LET score == calculate_correlation_score(s[i], s[j]) IN
         IF score > entity_correlation_threshold
         THEN find_related(s, i, j + 1,
                  [related |-> Append(acc.related,
                                      [anomaly |-> s[j], correlation_score |-> score]),
                   processed |-> acc.processed \cup {j}])
         ELSE find_related(s, i, j + 1, acc)

RECURSIVE correlate_from(_, _, _, _)
\* The outer loop of correlate_anomalies from index i on
correlate_from(s, i, processed, groups) ==
    IF i > Len(s) THEN groups
    ELSE IF i \in processed THEN correlate_from(s, i + 1, processed, groups)
    ELSE LET r == find_related(s, i, i + 1,
                               [related |-> <<>>, processed |-> processed \cup {i}])
             g == [primary_anomaly |-> s[i], related_anomalies |-> r.related,
                   group_confidence |-> engine_group_confidence(s[i], r.related)]
         IN correlate_from(s, i + 1, r.processed, Append(groups, g))

\* correlate_anomalies
correlate_anomalies(anomalies) ==
    IF Len(anomalies) < 2
    THEN IF anomalies /= <<>>
         THEN <<create_single_anomaly_group(anomalies[1])>>
         ELSE <<>>
    ELSE correlate_from(sorted_by_timestamp(anomalies), 1, {}, <<>>)

(* TieredAnomalyProcessor._tier3_correlation_analysis; correlation_raises      *)
(* says that correlate_anomalies raised and the except branch ran.             *)
tier3_correlation_analysis(anomalies, correlation_raises) ==
    IF Len(anomalies) < 2
    THEN IF anomalies /= <<>>
         THEN <<create_single_anomaly_group(anomalies[1])>>
         ELSE <<>>
    ELSE IF ~correlation_raises
         THEN correlate_anomalies(anomalies)
         ELSE [n \in 1..Len(anomalies) |-> create_single_anomaly_group(anomalies[n])]

-----------------------------------------------------------------------------
(* MultiStageValidationEngine *)

min_confidence_threshold == 800000

(* validation_config of the deployment modelled here: one whitelisted address  *)
(* and one whitelisted /24 (both are empty by default).                        *)
whitelisted_ips == {<<10, 9>>}
whitelisted_subnets == {<<20>>}

business_hours == [start |-> 8, end |-> 18]

\* threat_validation_rules; min_regularity 0.8 is kept as the largest passing CV, 20
threat_validation_rules ==
    [PORT_SCANNING |-> [min_ports |-> 10],
     DDOS |-> [min_packet_rate |-> 500, min_source_diversity |-> 5],
     C2_BEACONING |-> [max_cv |-> 20],
     CRYPTO_MINING |-> [min_data_volume |-> 1024],
     TOR_USAGE |-> [min_tor_indicators |-> 2]]

\* _ip_in_subnet for a "/24" entry
ip_in_subnet(ip, subnet) == ip[1] = subnet[1]

\* _stage1_whitelist_validation: the reasons for failing (none: the stage passed)
stage1_whitelist_validation(group) ==
    LET source_ip == group.primary_anomaly.source_ip
        dest_ip == dest_ip_of(group.primary_anomaly)
    IN  (IF source_ip /= NoIp /\ source_ip \in whitelisted_ips
         THEN <<"source_whitelisted">> ELSE <<>>)
     \o (IF source_ip /= NoIp /\ \E sn \in whitelisted_subnets : ip_in_subnet(source_ip, sn)
         THEN <<"source_in_whitelisted_subnet">> ELSE <<>>)
     \o (IF dest_ip /= NoIp /\ dest_ip \in whitelisted_ips
         THEN <<"destination_whitelisted">> ELSE <<>>)

\* _stage2_contextual_validation
stage2_contextual_validation(group) ==
    LET primary == group.primary_anomaly
        hour == hour_of(primary.detection_timestamp)
        is_business_hours == business_hours.start <= hour /\ hour <= business_hours.end
        is_weekend == weekday_of(primary.detection_timestamp) >= 5
    IN  IF /\ primary.threat_type = "PORT_SCANNING"
           /\ is_business_hours
           /\ ~is_weekend
           /\ (IF primary.confidence_score = None THEN 100 ELSE primary.confidence_score) < 90
        THEN <<"port_scan_in_business_hours">>
        ELSE <<>>

\* _stage3_threat_specific_validation
stage3_threat_specific_validation(group) ==
    LET primary == group.primary_anomaly
        threat_type == primary.threat_type
    IN  IF threat_type \notin DOMAIN threat_validation_rules
        THEN <<>>
        ELSE LET rules == threat_validation_rules[threat_type] IN
             CASE threat_type = "PORT_SCANNING" ->
                    IF primary.unique_ports < rules.min_ports
                    THEN <<"insufficient_ports">> ELSE <<>>
               [] threat_type = "DDOS" ->
                    (IF primary.packet_rate < rules.min_packet_rate
                     THEN <<"insufficient_packet_rate">> ELSE <<>>)
                 \o (IF primary.source_count < rules.min_source_diversity
                     THEN <<"insufficient_source_diversity">> ELSE <<>>)
               [] threat_type = "C2_BEACONING" ->
                    IF primary.coefficient_variation > rules.max_cv
                    THEN <<"insufficient_regularity">> ELSE <<>>
               [] threat_type = "CRYPTO_MINING" ->
                    IF primary.data_volume < rules.min_data_volume
                    THEN <<"insufficient_data_volume">> ELSE <<>>
               [] threat_type = "TOR_USAGE" ->
                    IF primary.tor_nodes < rules.min_tor_indicators
                    THEN <<"insufficient_tor_indicators">> ELSE <<>>

(* _stage4_historical_validation: the simulated false positive rate 0.02 is   *)
(* below every max_false_positive_rate and the repetition score 0.3 below 0.8 *)
stage4_historical_validation(group) == <<>>

\* _calculate_validation_confidence, in hundredths
calculate_validation_confidence(stages) ==
      (IF stages.whitelist THEN 30 ELSE 0)
    + (IF stages.contextual THEN 20 ELSE 0)
    + (IF stages.threat_specific THEN 30 ELSE 0)
    + (IF stages.historical THEN 20 ELSE 0)

\* a validation that stops at the first failing stage
apply_multistage_validation_until_failure(group) ==
    LET r1 == stage1_whitelist_validation(group)
        r2 == IF r1 = <<>> THEN stage2_contextual_validation(group) ELSE <<>>
        r3 == IF r1 \o r2 = <<>> THEN stage3_threat_specific_validation(group) ELSE <<>>
        r4 == IF r1 \o r2 \o r3 = <<>> THEN stage4_historical_validation(group) ELSE <<>>
        stages == [whitelist |-> r1 = <<>>, contextual |-> r2 = <<>>,
                   threat_specific |-> r3 = <<>>, historical |-> r4 = <<>>]
    IN  [is_valid |-> \A st \in DOMAIN stages : stages[st],
         confidence_score |-> calculate_validation_confidence(stages),
         validation_stages |-> stages,
         failure_reasons |-> r1 \o r2 \o r3 \o r4,
         fallback |-> FALSE]

\* _apply_multistage_validation: all four stages always run
apply_multistage_validation(group) ==
    LET r1 == stage1_whitelist_validation(group)
        r2 == stage2_contextual_validation(group)
        r3 == stage3_threat_specific_validation(group)
        r4 == stage4_historical_validation(group)
        stages == [whitelist |-> r1 = <<>>, contextual |-> r2 = <<>>,
                   threat_specific |-> r3 = <<>>, historical |-> r4 = <<>>]
    IN  [is_valid |-> \A st \in DOMAIN stages : stages[st],
         confidence_score |-> calculate_validation_confidence(stages),
         validation_stages |-> stages,
         failure_reasons |-> r1 \o r2 \o r3 \o r4,
         fallback |-> FALSE]

(* MultiStageValidationEngine._calculate_group_confidence, in millionths:     *)
(* 0.6 primary + 0.4 mean(confidence * correlation) + min(0.05 k, 0.2)         *)
validator_group_confidence(group) ==
    LET related == group.related_anomalies
        k == Len(related)
    IN  IF related = <<>>
        THEN 10000 * confidence_or_default(group.primary_anomaly)
        ELSE Min(1000000,
                 (6 * 10000 * k * confidence_or_default(group.primary_anomaly)
                  + 4 * sum_weighted_confidence(related)) \div (10 * k)
                 + Min(k * 50000, 200000))

threat_severity_map ==
    [DDOS |-> "HIGH", C2_BEACONING |-> "HIGH", PORT_SCANNING |-> "MEDIUM",
     CRYPTO_MINING |-> "MEDIUM", TOR_USAGE |-> "LOW",
     ML_BEHAVIORAL_ANOMALY |-> "MEDIUM", BEHAVIORAL_DEVIATION |-> "LOW"]

severity_levels == <<"LOW", "MEDIUM", "HIGH", "CRITICAL">>
severity_scores == [LOW |-> 2, MEDIUM |-> 5, HIGH |-> 8, CRITICAL |-> 10]

Max(x, y) == IF x > y THEN x ELSE y

\* int(x / d): truncation towards zero
TruncDiv(x, d) == IF x >= 0 THEN x \div d ELSE -((-x) \div d)

\* _calculate_priority: int((confidence - 0.5) * 4) truncates
calculate_priority(severity, confidence) ==
    Max(1, Min(10, severity_scores[severity] + TruncDiv((confidence - 500000) * 4, 1000000)))

\* no call of _calculate_priority has been made
NoAssessment == [phase |-> "none", severity |-> "LOW", confidence |-> 0, priority |-> 0]

\* _assess_threat_level
assess_threat_level(group, confidence) ==
    LET threat_type == group.primary_anomaly.threat_type
        base_severity == IF threat_type \in DOMAIN threat_severity_map
                         THEN threat_severity_map[threat_type] ELSE "LOW"
        group_size == 1 + Len(group.related_anomalies)
        severity_modifier ==
            (IF confidence > 900000 THEN 1 ELSE IF confidence > 800000 THEN 0 ELSE -1)
            + (IF group_size > 3 THEN 1 ELSE 0)
        base_index == CHOOSE n \in 1..Len(severity_levels) : severity_levels[n] = base_severity
        final_severity == severity_levels[Max(1, Min(Len(severity_levels),
                                                     base_index + severity_modifier))]
    IN  [severity |-> final_severity,
         priority |-> calculate_priority(final_severity, confidence),
         threat_type |-> threat_type,
         confidence |-> confidence,
         group_size |-> group_size]

\* Mutant: the gate lets the default confidence 0.5 through
passes_confidence_gate_low(group_confidence) == group_confidence >= 500000

\* validate_correlation_groups, line 89: group_confidence >= min_confidence_threshold
passes_confidence_gate(group_confidence) == group_confidence >= min_confidence_threshold

RECURSIVE validate_correlation_groups(_)
\* validate_correlation_groups
validate_correlation_groups(groups) ==
    IF groups = <<>> THEN <<>>
    ELSE LET group == Head(groups)
             validation_result == apply_multistage_validation(group)
             group_confidence == validator_group_confidence(group)
         IN (IF validation_result.is_valid /\ passes_confidence_gate(group_confidence)
             THEN <<[correlation_group |-> group,
                     confidence_score |-> group_confidence,
                     validation_result |-> validation_result,
                     final_threat_assessment |-> assess_threat_level(group, group_confidence)]>>
             ELSE <<>>)
            \o validate_correlation_groups(Tail(groups))

-----------------------------------------------------------------------------
(* MLModelManager and its two model clients *)

Models == {"isolation_forest", "lstm"}

health_check_interval == 300
max_error_count == 5

\* the clock moves in steps of WaitStep seconds; an age of two steps stands for
\* every age above health_check_interval
WaitStep == 200
\* error counts are followed up to MaxErrorCount
MaxErrorCount == 6

\* what is known of a model during one detect_ml_anomalies: whether its
\* detection call was made, the health record at that moment, what the
\* endpoint did ("ok", "error", or "none" when no request was sent), and the
\* error count when detect_ml_anomalies was done with the model
NoDetection ==
    [invoked |-> FALSE, is_healthy |-> FALSE, error_count |-> 0,
     endpoint |-> "none", error_count_after |-> 0]

\* ModelHealth as __init__ builds it; since_check is utcnow() - last_check
NewModelHealth == [is_healthy |-> TRUE, since_check |-> 0, error_count |-> 0]

(* MLModelManager.__init__ with both models enabled. disabled[m] is history:   *)
(* disable_model(m) was called and neither enable_model(m) nor                *)
(* reset_model_errors(m) since.                                               *)
NewMLModelManager ==
    [models |-> [m \in Models |-> [is_available |-> TRUE]],
     model_health |-> [m \in Models |-> NewModelHealth],
     last_detection |-> [m \in Models |-> NoDetection],
     disabled |-> [m \in Models |-> FALSE]]

(* _perform_health_check; endpoint_ok is what invoke_endpoint does inside      *)
(* model.health_check(), which catches every exception and returns False, so   *)
(* the except branch of _perform_health_check is never taken.                  *)
perform_health_check(mgr, m, endpoint_ok) ==
    [mgr EXCEPT
        !.models[m].is_available = endpoint_ok,
        !.model_health[m] =
            [is_healthy |-> endpoint_ok,
             since_check |-> 0,
             error_count |-> IF endpoint_ok THEN Max(0, @.error_count - 1)
                             ELSE @.error_count + 1]]

\* a test that leaves out the error count
model_usable_ignores_errors(health) == health.is_healthy

\* get_model, line 82
model_usable(health) ==
    health.is_healthy /\ health.error_count < max_error_count

\* get_model up to its test: the health check when one is due
get_model_check(mgr, m, endpoint_ok) ==
    IF mgr.model_health[m].since_check > health_check_interval
    THEN perform_health_check(mgr, m, endpoint_ok)
    ELSE mgr

\* _update_model_metrics
update_model_metrics(mgr, m, success) ==
    [mgr EXCEPT
        !.model_health[m].error_count = IF success THEN Max(0, @ - 1) ELSE @ + 1,
        !.model_health[m].is_healthy = IF success THEN @ ELSE FALSE]

(* IsolationForestModel.detect_anomalies / LSTMModel.detect_baseline_deviations *)
(* as the manager sees them: what the endpoint did with the request. Every    *)
(* exception is caught inside the client, which then marks itself unavailable  *)
(* and returns []; an unavailable client returns [] without a request.         *)
client_endpoint(mgr, m, endpoint) ==
    IF mgr.models[m].is_available THEN endpoint ELSE "none"

client_detect(mgr, m, endpoint) ==
    IF client_endpoint(mgr, m, endpoint) = "error"
    THEN [mgr EXCEPT !.models[m].is_available = FALSE]
    ELSE mgr

\* one of the two blocks of detect_ml_anomalies
detect_with(mgr, m, check_ok, endpoint) ==
    LET checked == get_model_check(mgr, m, check_ok) IN
    IF model_usable(checked.model_health[m])
    THEN LET called == client_detect(checked, m, endpoint)
             \* the client returned a list, so the try block ends normally
             done == update_model_metrics(called, m, TRUE)
         IN [done EXCEPT !.last_detection[m] =
                [invoked |-> TRUE,
                 is_healthy |-> checked.model_health[m].is_healthy,
                 error_count |-> checked.model_health[m].error_count,
                 endpoint |-> client_endpoint(checked, m, endpoint),
                 error_count_after |-> done.model_health[m].error_count]]
    ELSE [checked EXCEPT !.last_detection[m] = NoDetection]

\* detect_ml_anomalies: Isolation Forest, then LSTM
detect_ml_anomalies(mgr, check_ok, endpoint) ==
    detect_with(detect_with(mgr, "isolation_forest",
                            check_ok["isolation_forest"], endpoint["isolation_forest"]),
                "lstm", check_ok["lstm"], endpoint["lstm"])

\* perform_all_health_checks
perform_all_health_checks(mgr, check_ok) ==
    perform_health_check(perform_health_check(mgr, "isolation_forest",
                                              check_ok["isolation_forest"]),
                         "lstm", check_ok["lstm"])

\* reset_model_errors
reset_model_errors(mgr, m) ==
    [mgr EXCEPT !.model_health[m].error_count = 0,
                !.model_health[m].is_healthy = TRUE]

\* disable_model
disable_model(mgr, m) ==
    [mgr EXCEPT !.models[m].is_available = FALSE,
                !.model_health[m].is_healthy = FALSE]

\* enable_model
enable_model(mgr, m, check_ok) ==
    perform_health_check(
        reset_model_errors([mgr EXCEPT !.models[m].is_available = TRUE], m),
        m, check_ok)

\* the operation that led here was no detection
forget_detection(mgr) == [mgr EXCEPT !.last_detection = [m \in Models |-> NoDetection]]

within_error_cap(mgr) ==
    \A m \in Models : mgr.model_health[m].error_count <= MaxErrorCount

-----------------------------------------------------------------------------
(* CorrelationStateManager over a Redis store *)

\* configuration: state_ttl, max_history_size, cleanup_interval, in clock steps
state_ttl == 2
max_history_size == 2
cleanup_interval == 2
\* get_related_entities is asked for the anomalies of the last step
related_time_window == 1

MaxClock == 2
MaxUpdates == 3

Instances == {"manager-1", "manager-2"}
Keys == {"10.0.10.1", "10.0.10.2"}

\* datetime.isoformat and datetime.fromisoformat
isoformat(t) == <<"iso", t>>
fromisoformat(x) == x[2]

\* a correlation context: a dict with the keys campaign and stage, 0 for a
\* key that is not in the dict
NoContext == [campaign |-> 0, stage |-> 0]
ContextDeltas ==
    {NoContext, [campaign |-> 1, stage |-> 0], [campaign |-> 0, stage |-> 1]}

\* dict.update
dict_update(context, delta) ==
    [f \in DOMAIN context |-> IF delta[f] /= 0 THEN delta[f] ELSE context[f]]

\* the anomaly_data dicts a caller passes for entity key k
AnomalyData(id, k) ==
    IF id % 2 = 1
    THEN {[anomaly_id |-> id, threat_type |-> "PORT_SCANNING", confidence_score |-> 94,
           source_ip |-> k, destination_ip |-> "", destination_port |-> 0]}
    ELSE {[anomaly_id |-> id, threat_type |-> "C2_BEACONING", confidence_score |-> 88,
           source_ip |-> k, destination_ip |-> "10.0.30.7", destination_port |-> 443]}

NoAnomalyData ==
    [anomaly_id |-> 0, threat_type |-> "", confidence_score |-> 0,
     source_ip |-> "", destination_ip |-> "", destination_port |-> 0]

\* update_entity_correlation_state, lines 103-111
anomaly_entry(anomaly_data, t) ==
    [anomaly_id |-> anomaly_data.anomaly_id,
     threat_type |-> anomaly_data.threat_type,
     confidence_score |-> anomaly_data.confidence_score,
     timestamp |-> isoformat(t),
     source_ip |-> anomaly_data.source_ip,
     destination_ip |-> anomaly_data.destination_ip,
     destination_port |-> anomaly_data.destination_port]

\* get_entity_correlation_state returned None
NoState ==
    [is_none |-> TRUE, entity_key |-> "", anomaly_history |-> <<>>,
     correlation_context |-> NoContext, last_updated |-> 0, expiry_time |-> 0]

\* CorrelationState.to_dict
to_dict(state) ==
    [entity_key |-> state.entity_key,
     anomaly_history |-> state.anomaly_history,
     correlation_context |-> state.correlation_context,
     last_updated |-> isoformat(state.last_updated),
     expiry_time |-> isoformat(state.expiry_time)]

\* CorrelationState.from_dict
from_dict(data) ==
    [is_none |-> FALSE,
     entity_key |-> data.entity_key,
     anomaly_history |-> data.anomaly_history,
     correlation_context |-> data.correlation_context,
     last_updated |-> fromisoformat(data.last_updated),
     expiry_time |-> fromisoformat(data.expiry_time)]

\* a key Redis does not hold
NoKey == [present |-> FALSE, data |-> to_dict(NoState), deadline |-> 0]

\* a store that hands out keys whatever their time to live
redis_live_forever(redis, k, t) == redis[k].present

\* Redis: a key written with SETEX is gone when its time to live has passed
redis_live(redis, k, t) == redis[k].present /\ t < redis[k].deadline

\* Redis KEYS correlation:entity:*
redis_keys(redis, t) == {k \in Keys : redis_live(redis, k, t)}

\* Redis SETEX
redis_setex(redis, k, ttl, data, t) ==
    [redis EXCEPT ![k] = [present |-> TRUE, data |-> data, deadline |-> t + ttl]]

\* Redis DEL
redis_delete(redis, k) == [redis EXCEPT ![k] = NoKey]

\* get_entity_correlation_state at time t; get_ok: the GET did not raise
get_entity_correlation_state(redis, k, t, get_ok) ==
    IF get_ok /\ redis_live(redis, k, t) THEN from_dict(redis[k].data) ELSE NoState

\* a truncation that keeps the oldest entries
truncate_history_keeps_oldest(history) ==
    IF Len(history) > max_history_size
    THEN SubSeq(history, 1, max_history_size)
    ELSE history

\* update_entity_correlation_state, lines 116-117: history[-max_history_size:]
truncate_history(history) ==
    IF Len(history) > max_history_size
    THEN SubSeq(history, Len(history) - max_history_size + 1, Len(history))
    ELSE history

(* update_entity_correlation_state, lines 91-100: the state read, or a new one *)
(* when get_entity_correlation_state returned None                             *)
update_read(redis, k, correlation_context, t, get_ok) ==
    LET state == get_entity_correlation_state(redis, k, t, get_ok) IN
    IF state.is_none
    THEN [is_none |-> FALSE, entity_key |-> k, anomaly_history |-> <<>>,
          correlation_context |-> correlation_context,
          last_updated |-> t, expiry_time |-> t + state_ttl]
    ELSE state

\* update_entity_correlation_state, lines 102-125, on the state read before
update_modify(state, anomaly_data, correlation_context, t) ==
    [state EXCEPT
        !.anomaly_history = truncate_history(Append(@, anomaly_entry(anomaly_data, t))),
        !.correlation_context = IF correlation_context /= NoContext
                                THEN dict_update(@, correlation_context) ELSE @,
        !.last_updated = t,
        !.expiry_time = t + state_ttl]

\* update_entity_correlation_state, lines 128-133
update_write(redis, k, state, t) == redis_setex(redis, k, state_ttl, to_dict(state), t)

\* get_related_entities: the keys of the entries returned
get_related_entities(redis, k, t) ==
    {key \in redis_keys(redis, t) \ {k} :
        \E n \in DOMAIN redis[key].data.anomaly_history :
            t - fromisoformat(redis[key].data.anomaly_history[n].timestamp)
                <= related_time_window}

\* cleanup_expired_states: the keys the sweep deletes
cleanup_expired(redis, t) ==
    {k \in redis_keys(redis, t) : t > fromisoformat(redis[k].data.expiry_time)}

RECURSIVE redis_delete_all(_, _)
redis_delete_all(redis, ks) ==
    IF ks = {} THEN redis
    ELSE LET k == CHOOSE x \in ks : TRUE
         IN redis_delete_all(redis_delete(redis, k), ks \ {k})

\* a manager instance: where it is in update_entity_correlation_state, the
\* arguments, the state read and whether the GET raised, and
\* self.last_cleanup; swept tells whether it has swept before
NewInstance ==
    [pc |-> "idle", entity_key |-> "", anomaly_data |-> NoAnomalyData,
     correlation_context |-> NoContext, state |-> NoState, read_ok |-> FALSE,
     last_cleanup |-> 0, swept |-> FALSE]

\* what the call that ended last did
NoOp ==
    [op |-> "none", entity_key |-> "", ok |-> FALSE, read_ok |-> FALSE, at |-> 0,
     state |-> NoState, related |-> {}, since |-> 0, first |-> FALSE,
     swept |-> FALSE, deleted |-> {}, expired |-> {},
     redis_before |-> [k \in Keys |-> NoKey]]

\* no successful update of a key that nothing has touched since
NoFresh ==
    [valid |-> FALSE, anomaly_data |-> NoAnomalyData, previous |-> NoContext,
     delta |-> NoContext, read_ok |-> FALSE, at |-> 0]

\* every instance is constructed at clock 0 over an empty Redis
NewStore ==
    [redis |-> [k \in Keys |-> NoKey],
     clock |-> 0,
     inst |-> [i \in Instances |-> NewInstance],
     appended |-> [k \in Keys |-> <<>>],
     fresh |-> [k \in Keys |-> NoFresh],
     started |-> 0,
     last |-> NoOp]

-----------------------------------------------------------------------------
(* ServiceResilienceManager *)

MaxServiceCalls == 3

\* ServiceResilienceManager.__init__; fallback_invoked counts the calls in
\* which ResilientService.execute invoked the fallback function
NewService ==
    [global_metrics |-> [total_calls |-> 0, successful_calls |-> 0, failed_calls |-> 0,
                         fallback_calls |-> 0, circuit_breaker_trips |-> 0],
     fallback_invoked |-> 0]

(* ServiceResilienceManager.execute_service around the result of              *)
(* ResilientService.execute; mentions: str(e) of the exception that came out  *)
(* contains "fallback"                                                        *)
execute_service(sv, result, fallback_set, mentions) ==
    LET m1 == [sv.global_metrics EXCEPT !.total_calls = @ + 1]
        m2 == IF result.raised = "none"
              THEN [m1 EXCEPT !.successful_calls = @ + 1]
              ELSE [m1 EXCEPT
                       !.failed_calls = @ + 1,
                       !.fallback_calls = IF fallback_set /\ mentions THEN @ + 1 ELSE @,
                       !.circuit_breaker_trips =
                           IF result.raised = "CircuitBreakerError" THEN @ + 1 ELSE @]
    IN [global_metrics |-> m2,
        fallback_invoked |-> IF result.fallback /= "not_invoked"
                             THEN sv.fallback_invoked + 1
                             ELSE sv.fallback_invoked]

-----------------------------------------------------------------------------
(* EventPublisher and EventPublisherManager *)

\* EventBridge takes at most 10 entries in one put_events
chunk_size == 10
MaxPublishCalls == 3

\* what client.put_events does for one entry
PutOutcomes == {"ok", "failed_entry", "client_error", "error"}
\* what client.put_events does for a chunk
ChunkOutcomes == {"all_ok", "one_failed", "client_error", "error"}
\* the lengths of the lists handed to publish_batch
BatchSizes == {0, 1, 3, chunk_size + 1}

\* EventPublisher.__init__
NewEventPublisher == [present |-> TRUE, health_status |-> TRUE]
\* fallback_publisher is None
NoEventPublisher == [present |-> FALSE, health_status |-> TRUE]

\* EventPublisher.publish_anomaly
publish_anomaly(pub, outcome) ==
    [ok |-> outcome = "ok",
     publisher |-> [pub EXCEPT !.health_status = IF outcome = "client_error" THEN FALSE ELSE @]]

\* EventPublisher._publish_batch_chunk on a chunk of len anomalies
publish_batch_chunk(pub, len, outcome) ==
    IF outcome \in {"client_error", "error"}
    THEN [success |-> 0, failed |-> len,
          publisher |-> [pub EXCEPT !.health_status =
                                       IF outcome = "client_error" THEN FALSE ELSE @]]
    ELSE LET failed_count == IF outcome = "one_failed" THEN 1 ELSE 0
         IN [success |-> len - failed_count, failed |-> failed_count, publisher |-> pub]

RECURSIVE publish_batch_from(_, _, _, _, _)
\* EventPublisher.publish_batch: the loop over the chunks, i the start of the next
publish_batch_from(pub, n, outcomes, i, results) ==
    IF i >= n
    THEN [success |-> results.success, failed |-> results.failed, publisher |-> pub]
    ELSE LET len == IF n - i < chunk_size THEN n - i ELSE chunk_size
             batch_results == publish_batch_chunk(pub, len, outcomes[(i \div chunk_size) + 1])
         IN publish_batch_from(batch_results.publisher, n, outcomes, i + chunk_size,
                               [success |-> results.success + batch_results.success,
                                failed |-> results.failed + batch_results.failed])

\* EventPublisher.publish_batch on n anomalies
publish_batch(pub, n, outcomes) ==
    publish_batch_from(pub, n, outcomes, 0, [success |-> 0, failed |-> 0])

\* no call of the manager has ended yet
NoPublish ==
    [op |-> "none", returned |-> FALSE, primary_tried |-> FALSE, primary_ok |-> FALSE,
     fallback_tried |-> FALSE, fallback_ok |-> FALSE, n |-> 0, success |-> 0, failed |-> 0]

(* EventPublisherManager.__init__ before the buses are known; calls,          *)
(* batch_items and fallback_successes count the publish_anomaly calls, the    *)
(* anomalies handed to publish_batch and the calls the fallback bus took      *)
NewPublisherManager ==
    [pc |-> "new",
     primary_publisher |-> NewEventPublisher,
     fallback_publisher |-> NoEventPublisher,
     metrics |-> [events_published |-> 0, events_failed |-> 0, failover_count |-> 0],
     calls |-> 0, batch_items |-> 0, fallback_successes |-> 0,
     last |-> NoPublish]

\* Mutant: a finding the fallback bus took is counted as failed too
manager_publish_anomaly_counts_primary_failure(p, o1, o2) ==
    LET first == publish_anomaly(p.primary_publisher, o1) IN
    IF first.ok
    THEN [p EXCEPT !.primary_publisher = first.publisher,
                   !.metrics.events_published = @ + 1,
                   !.last = [NoPublish EXCEPT !.op = "anomaly", !.returned = TRUE,
                                              !.primary_tried = TRUE, !.primary_ok = TRUE]]
    ELSE IF p.fallback_publisher.present
         THEN LET second == publish_anomaly(p.fallback_publisher, o2) IN
              IF second.ok
              THEN [p EXCEPT !.primary_publisher = first.publisher,
                             !.fallback_publisher = second.publisher,
                             !.metrics.events_published = @ + 1,
                             !.metrics.events_failed = @ + 1,
                             !.metrics.failover_count = @ + 1,
                             !.last = [NoPublish EXCEPT !.op = "anomaly", !.returned = TRUE,
                                                        !.primary_tried = TRUE,
                                                        !.fallback_tried = TRUE,
                                                        !.fallback_ok = TRUE]]
              ELSE [p EXCEPT !.primary_publisher = first.publisher,
                             !.fallback_publisher = second.publisher,
                             !.metrics.events_failed = @ + 1,
                             !.last = [NoPublish EXCEPT !.op = "anomaly",
                                                        !.primary_tried = TRUE,
                                                        !.fallback_tried = TRUE]]
         ELSE [p EXCEPT !.primary_publisher = first.publisher,
                        !.metrics.events_failed = @ + 1,
                        !.last = [NoPublish EXCEPT !.op = "anomaly", !.primary_tried = TRUE]]

\* EventPublisherManager.publish_anomaly; o1, o2: what put_events does on each bus
manager_publish_anomaly(p, o1, o2) ==
    LET first == publish_anomaly(p.primary_publisher, o1) IN
    IF first.ok
    THEN [p EXCEPT !.primary_publisher = first.publisher,
                   !.metrics.events_published = @ + 1,
                   !.last = [NoPublish EXCEPT !.op = "anomaly", !.returned = TRUE,
                                              !.primary_tried = TRUE, !.primary_ok = TRUE]]
    ELSE IF p.fallback_publisher.present
         THEN LET second == publish_anomaly(p.fallback_publisher, o2) IN
              IF second.ok
              THEN [p EXCEPT !.primary_publisher = first.publisher,
                             !.fallback_publisher = second.publisher,
                             !.metrics.events_published = @ + 1,
                             !.metrics.failover_count = @ + 1,
                             !.last = [NoPublish EXCEPT !.op = "anomaly", !.returned = TRUE,
                                                        !.primary_tried = TRUE,
                                                        !.fallback_tried = TRUE,
                                                        !.fallback_ok = TRUE]]
              ELSE [p EXCEPT !.primary_publisher = first.publisher,
                             !.fallback_publisher = second.publisher,
                             !.metrics.events_failed = @ + 1,
                             !.last = [NoPublish EXCEPT !.op = "anomaly",
                                                        !.primary_tried = TRUE,
                                                        !.fallback_tried = TRUE]]
         ELSE [p EXCEPT !.primary_publisher = first.publisher,
                        !.metrics.events_failed = @ + 1,
                        !.last = [NoPublish EXCEPT !.op = "anomaly", !.primary_tried = TRUE]]

(* EventPublisherManager.publish_batch: the fallback publisher is not called, *)
(* the branch of lines 207-210 only logs                                      *)
manager_publish_batch(p, n, outcomes) ==
    LET results == publish_batch(p.primary_publisher, n, outcomes) IN
    [p EXCEPT !.primary_publisher = results.publisher,
              !.metrics.events_published = @ + results.success,
              !.metrics.events_failed = @ + results.failed,
              !.last = [NoPublish EXCEPT !.op = "batch", !.primary_tried = TRUE,
                                         !.primary_ok = results.failed = 0,
                                         !.n = n, !.success = results.success,
                                         !.failed = results.failed]]

-----------------------------------------------------------------------------
(* TieredAnomalyProcessor *)

Detectors == {"port_scanning", "ddos", "c2_beaconing", "crypto_mining", "tor_usage"}

RECURSIVE tier1_collect_until_raise(_)
\* a loop without the try around future.result(): the first raise ends it
tier1_collect_until_raise(runs) ==
    IF runs = <<>> THEN <<>>
    ELSE IF Head(runs).raised THEN <<>>
    ELSE Head(runs).anomalies \o tier1_collect_until_raise(Tail(runs))

RECURSIVE tier1_collect(_)
\* the loop over as_completed: a detector that raised adds nothing
tier1_collect(runs) ==
    IF runs = <<>> THEN <<>>
    ELSE (IF Head(runs).raised THEN <<>> ELSE Head(runs).anomalies)
         \o tier1_collect(Tail(runs))

(* _tier1_fast_screening. parsed says that at least one record of the batch    *)
(* was parsed; runs are the detector runs that contributed, in the order in    *)
(* which they completed (a run that returns [] changes nothing wherever it     *)
(* completes); timed_out says that some other detector had not finished when   *)
(* tier1_timeout expired, which makes as_completed raise TimeoutError after    *)
(* the finished runs were collected.                                           *)
tier1_fast_screening(parsed, runs, timed_out) ==
    IF ~parsed THEN [raised |-> FALSE, anomalies |-> <<>>]
    ELSE IF timed_out THEN [raised |-> TRUE, anomalies |-> <<>>]
    ELSE [raised |-> FALSE, anomalies |-> tier1_collect(runs)]

\* _tier2_ml_analysis: ml is what detect_ml_anomalies did
tier2_ml_analysis(tier1_anomalies, ml) ==
    IF tier1_anomalies = <<>> THEN <<>>
    ELSE IF ml.raised THEN <<>> ELSE ml.anomalies

\* _tier4_validation, line 275: confidence > 0.7
fallback_admits(confidence) == confidence > 70

\* the ValidatedAnomaly built by the except branch of _tier4_validation
fallback_validated(group) ==
    LET confidence == confidence_or_default(group.primary_anomaly) IN
    [correlation_group |-> group,
     confidence_score |-> 10000 * confidence,
     validation_result |-> [is_valid |-> TRUE,
                            confidence_score |-> confidence,
                            validation_stages |-> [basic |-> TRUE],
                            failure_reasons |-> <<>>,
                            fallback |-> TRUE],
     final_threat_assessment |-> [severity |-> "MEDIUM", priority |-> 5,
                                  threat_type |-> group.primary_anomaly.threat_type,
                                  confidence |-> 10000 * confidence]]

RECURSIVE tier4_fallback(_)
tier4_fallback(groups) ==
    IF groups = <<>> THEN <<>>
    ELSE (IF fallback_admits(confidence_or_default(Head(groups).primary_anomaly))
          THEN <<fallback_validated(Head(groups))>>
          ELSE <<>>)
         \o tier4_fallback(Tail(groups))

\* _tier4_validation; validation_raises says that validate_correlation_groups raised
tier4_validation(groups, validation_raises) ==
    IF groups = <<>> THEN <<>>
    ELSE IF ~validation_raises
         THEN validate_correlation_groups(groups)
         ELSE tier4_fallback(groups)

\* ProcessingResult.__init__
NewProcessingResult ==
    [anomalies |-> <<>>, tier1_count |-> 0, tier2_count |-> 0,
     correlation_groups |-> 0, validated_count |-> 0, error |-> FALSE]

(* process_flow_logs from the outcome of Tier 1 on: the ProcessingResult,     *)
(* with the locals all_anomalies and correlation_groups kept beside it.        *)
process_flow_logs(tier1, ml, correlation_raises, validation_raises) ==
    IF tier1.raised
    THEN [result |-> [NewProcessingResult EXCEPT !.error = TRUE],
          all_anomalies |-> <<>>, groups |-> <<>>]
    ELSE IF tier1.anomalies = <<>>
    THEN [result |-> NewProcessingResult, all_anomalies |-> <<>>, groups |-> <<>>]
    ELSE LET tier2_anomalies == tier2_ml_analysis(tier1.anomalies, ml)
             all_anomalies == tier1.anomalies \o tier2_anomalies
             groups == tier3_correlation_analysis(all_anomalies, correlation_raises)
             validated == tier4_validation(groups, validation_raises)
         IN [result |-> [anomalies |-> validated,
                         tier1_count |-> Len(tier1.anomalies),
                         tier2_count |-> Len(tier2_anomalies),
                         correlation_groups |-> Len(groups),
                         validated_count |-> Len(validated),
                         error |-> FALSE],
             all_anomalies |-> all_anomalies,
             groups |-> groups]

-----------------------------------------------------------------------------
(* Calls of process_flow_logs *)

Workers == 1..NumWorkers

\* a worker that is not inside process_flow_logs
IdleFrame ==
    [phase |-> "idle", batch |-> 0, flow_logs |-> <<>>,
     parsed |-> FALSE, runs |-> <<>>, timed_out |-> FALSE,
     correlation_raised |-> FALSE, validation_raised |-> FALSE,
     all_anomalies |-> <<>>, groups |-> <<>>, result |-> NewProcessingResult]

PipeInit ==
    /\ breaker = NewCircuitBreaker
    /\ now = 0
    /\ pc = [c \in Callers |-> "idle"]
    /\ last_call = NoCall
    /\ has_fallback = FALSE
    /\ fail_run = 0
    /\ succ_run = 0
    /\ frame = [w \in Workers |-> IdleFrame]
    /\ manager = NewMLModelManager
    /\ assessment = NoAssessment
    /\ store = NewStore
    /\ service = NewService
    /\ publisher = NewPublisherManager

(* What the detectors can make of a batch. Every detector emits only          *)
(* anomalies with confidence above its confidence_threshold 0.8, stamped       *)
(* with utcnow() while the batch is processed (t, a few seconds apart).        *)
IpA == <<10, 1>>
IpB == <<10, 2>>
IpW == <<10, 9>>
IpS == <<20, 5>>
IpT == <<30, 7>>
IpU == <<30, 8>>

\* Monday 10:00 and Saturday 22:00
BatchTimes == {10 * 3600, 5 * 86400 + 22 * 3600}

Run(d, anomalies) == [detector |-> d, raised |-> FALSE, anomalies |-> anomalies]

DetectorOutcomes(d, t) ==
    {[detector |-> d, raised |-> TRUE, anomalies |-> <<>>]} \cup
    CASE d = "port_scanning" ->
           {Run(d, <<PortScanAnomaly(<<"ps", 1>>, IpA, 25, <<>>, 94, t)>>),
            Run(d, <<PortScanAnomaly(<<"ps", 1>>, IpA, 21, <<>>, 82, t + 3)>>),
            Run(d, <<PortScanAnomaly(<<"ps", 1>>, IpW, 25, <<>>, 94, t),
                     PortScanAnomaly(<<"ps", 2>>, IpA, 8, <<>>, 86, t + 6)>>)}
      [] d = "ddos" ->
           {Run(d, <<DDoSAnomaly(<<"dd", 1>>, IpT, 80, 1500, 150, 90, t + 6)>>),
            Run(d, <<DDoSAnomaly(<<"dd", 1>>, IpT, 80, 1200, 3, 85, t + 6),
                     DDoSAnomaly(<<"dd", 2>>, IpT, 80, 2400, 40, 92, t + 9)>>)}
      [] d = "c2_beaconing" ->
           {Run(d, <<C2BeaconingAnomaly(<<"c2", 1>>, IpA, IpT, 443, 5, 90, t + 12)>>),
            Run(d, <<C2BeaconingAnomaly(<<"c2", 1>>, IpA, IpT, 443, 5, 88, t + 12),
                     C2BeaconingAnomaly(<<"c2", 2>>, IpA, IpU, 443, 12, 84, t + 15)>>)}
      [] d = "crypto_mining" ->
           {Run(d, <<CryptoMiningAnomaly(<<"cm", 1>>, IpA, 2097152, 85, t + 24)>>),
            Run(d, <<CryptoMiningAnomaly(<<"cm", 1>>, IpB, 2097152, 91, t + 9)>>)}
      [] d = "tor_usage" ->
           {Run(d, <<TorUsageAnomaly(<<"tor", 1>>, IpA, 2, 86, t)>>),
            Run(d, <<TorUsageAnomaly(<<"tor", 1>>, IpS, 1, 83, t + 3)>>),
            Run(d, <<TorUsageAnomaly(<<"tor", 1>>, IpB, 3, 88, t + 6)>>)}

\* what detect_ml_anomalies can do, Tier 2 running after Tier 1
MLOutcomes(t) ==
    {[raised |-> TRUE, anomalies |-> <<>>],
     [raised |-> FALSE, anomalies |-> <<>>],
     [raised |-> FALSE, anomalies |-> <<MLAnomaly(<<"ml", 1>>, <<>>, 100, t + 30)>>],
     [raised |-> FALSE, anomalies |-> <<MLAnomaly(<<"ml", 1>>, <<>>, 95, t + 30),
                                        BaselineDeviation(<<"ml", 2>>, <<>>, 90, t + 33)>>]}

\* the orders in which the runs of the detectors in S can complete
CompletionOrders(S) ==
    {o \in [1..Cardinality(S) -> S] : \A m, n \in DOMAIN o : m /= n => o[m] /= o[n]}

(* The runs of Tier 1 that contribute to the result of a batch processed at   *)
(* t: at most MaxActive detectors find something or raise.                     *)
Tier1Runs(t) ==
    UNION {
      UNION {
        { [n \in DOMAIN o |-> outs[o[n]]] : o \in CompletionOrders(S) }
        : outs \in {f \in [S -> UNION {DetectorOutcomes(d, t) : d \in S}] :
                       \A d \in S : f[d].detector = d} }
      : S \in {X \in SUBSET Detectors : Cardinality(X) <= MaxActive} }

(* the frame of a call that has returned; parsed, runs and timed_out keep     *)
(* what Tier 1 met, the two flags which of Tier 3 and Tier 4 raised            *)
Returned(batch, logs, parsed, runs, timed_out, out, correlation_raises, validation_raises) ==
    [phase |-> "returned", batch |-> batch, flow_logs |-> logs,
     parsed |-> parsed, runs |-> runs, timed_out |-> timed_out,
     correlation_raised |-> correlation_raises,
     validation_raised |-> validation_raises,
     all_anomalies |-> out.all_anomalies, groups |-> out.groups, result |-> out.result]

(* One call of process_flow_logs by worker w, from entry to return. What the  *)
(* batch holds is seen through what the detectors and the models make of it;   *)
(* a tier's outcome is drawn only when the tier runs.                          *)
ProcessFlowLogs(w) ==
    /\ frame[w].phase = "idle"
    /\ \E t \in BatchTimes, parsed \in BOOLEAN, timed_out \in BOOLEAN :
       \E runs \in (IF parsed THEN Tier1Runs(t) ELSE {<<>>}) :
       LET tier1 == tier1_fast_screening(parsed, runs, timed_out) IN
       \E ml \in (IF tier1.anomalies /= <<>> THEN MLOutcomes(t)
                  ELSE {[raised |-> FALSE, anomalies |-> <<>>]}) :
       LET n_all == Len(tier1.anomalies) + Len(tier2_ml_analysis(tier1.anomalies, ml)) IN
       \E correlation_raises \in (IF n_all >= 2 THEN BOOLEAN ELSE {FALSE}),
          validation_raises \in (IF n_all >= 1 THEN BOOLEAN ELSE {FALSE}) :
            frame' = [frame EXCEPT ![w] =
                Returned(0, <<>>, parsed, runs, timed_out,
                         process_flow_logs(tier1, ml, correlation_raises, validation_raises),
                         correlation_raises, validation_raises)]
    /\ UNCHANGED <<breakerVars, manager, assessment, store, service, publisher>>

\* The caller takes the ProcessingResult; the worker is free for the next batch
Collect(w) ==
    /\ frame[w].phase = "returned"
    /\ frame' = [frame EXCEPT ![w] = IdleFrame]
    /\ UNCHANGED <<breakerVars, manager, assessment, store, service, publisher>>

\* One caller, batch after batch
PipeNext ==
    \/ ProcessFlowLogs(1)
    \/ Collect(1)

PipeSpec == PipeInit /\ [][PipeNext]_vars

-----------------------------------------------------------------------------
(* Flow logs and PortScanningDetector *)

port_scan_window == 60
confidence_threshold == 8000

(* A record of a batch as the caller passes it: batch names the batch it      *)
(* came in with, parseable is FALSE when int() or fromisoformat() raises on    *)
(* one of its fields.                                                          *)
FlowRecord(batch, ts, src, dst, port, action) ==
    [batch |-> batch, parseable |-> TRUE, timestamp |-> ts, source_ip |-> src,
     destination_ip |-> dst, destination_port |-> port, protocol |-> "TCP",
     action |-> action, packets |-> 1, bytes |-> 60]

\* _tier1_fast_screening, lines 165-187: records that do not parse are skipped
parse_flow_logs(logs) == SelectSeq(logs, LAMBDA r : r.parseable)

well_known_ports == {21, 22, 23, 25, 53, 80, 110, 143, 443, 993, 995}

\* _calculate_port_diversity, in hundredths
calculate_port_diversity(ports) ==
    LET n == Cardinality(ports)
        well_known_count == Cardinality(ports \cap well_known_ports)
    IN  IF n < 5 THEN 0
        ELSE IF 5 * well_known_count >= n /\ 5 * well_known_count <= 4 * n THEN 80
        ELSE IF 5 * well_known_count < n THEN 60
        ELSE 40

\* _calculate_connection_success_rate < 0.1
low_success_rate(connections) ==
    IF connections = <<>> THEN TRUE
    ELSE 10 * Len(SelectSeq(connections, LAMBDA c : c.action = "ACCEPT")) < Len(connections)

\* _detect_sequential_patterns, in ten-thousandths
detect_sequential_patterns(ports) ==
    LET n == Cardinality(ports)
        sequential_count == Cardinality({p \in ports : p + 1 \in ports})
    IN  IF n < 5 THEN 0
        ELSE Min(10000, (2 * sequential_count * 10000) \div (n - 1))

\* _validate_port_scan_indicators, in ten-thousandths
validate_port_scan_indicators(candidate) ==
    Min(10000,
        30 * calculate_port_diversity(candidate.unique_ports)
        + (IF low_success_rate(candidate.connections) THEN 4000 ELSE 0)
        + (3 * detect_sequential_patterns(candidate.unique_ports)) \div 10)

RECURSIVE detect_from(_, _, _, _, _)
(* The loop of PortScanningDetector.detect from record n on; candidates is    *)
(* the local port_scan_candidates, t the clock when an anomaly is created.     *)
detect_from(logs, n, candidates, anomalies, t) ==
    IF n > Len(logs) THEN anomalies
    ELSE LET log == logs[n]
             source_ip == log.source_ip
             known == IF source_ip \in DOMAIN candidates
                      THEN candidates[source_ip]
                      ELSE [unique_ports |-> {}, first_seen |-> log.timestamp,
                            connections |-> <<>>]
             candidate ==
                 [unique_ports |-> known.unique_ports \cup {log.destination_port},
                  first_seen |-> known.first_seen,
                  connections |-> Append(known.connections,
                      [batch |-> log.batch, dest_ip |-> log.destination_ip,
                       dest_port |-> log.destination_port, timestamp |-> log.timestamp,
                       action |-> log.action, protocol |-> log.protocol])]
             time_diff == log.timestamp - candidate.first_seen
             emits == /\ time_diff <= port_scan_window
                      /\ Cardinality(candidate.unique_ports) > port_threshold
                      /\ validate_port_scan_indicators(candidate) > confidence_threshold
         IN  IF emits
             THEN detect_from(logs, n + 1,
                      [ip \in DOMAIN candidates \ {source_ip} |-> candidates[ip]],
                      Append(anomalies,
                          PortScanAnomaly(<<"ps", n>>, source_ip,
                              Cardinality(candidate.unique_ports), candidate.connections,
                              validate_port_scan_indicators(candidate) \div 100, t)),
                      t)
             ELSE detect_from(logs, n + 1,
                      [ip \in DOMAIN candidates \cup {source_ip} |->
                           IF ip = source_ip THEN candidate ELSE candidates[ip]],
                      anomalies, t)

\* PortScanningDetector.detect: port_scan_candidates and anomalies start empty
detect(logs, t) == detect_from(logs, 1, <<>>, <<>>, t)

RECURSIVE declared_from(_, _, _, _)
(* The same loop, keeping the sources for which the test of line 80 (within    *)
(* the window and above the threshold) came out true.                          *)
declared_from(logs, n, candidates, declared) ==
    IF n > Len(logs) THEN declared
    ELSE LET log == logs[n]
             source_ip == log.source_ip
             known == IF source_ip \in DOMAIN candidates
                      THEN candidates[source_ip]
                      ELSE [unique_ports |-> {}, first_seen |-> log.timestamp,
                            connections |-> <<>>]
             candidate ==
                 [unique_ports |-> known.unique_ports \cup {log.destination_port},
                  first_seen |-> known.first_seen,
                  connections |-> Append(known.connections,
                      [batch |-> log.batch, dest_ip |-> log.destination_ip,
                       dest_port |-> log.destination_port, timestamp |-> log.timestamp,
                       action |-> log.action, protocol |-> log.protocol])]
             time_diff == log.timestamp - candidate.first_seen
             is_candidate == /\ time_diff <= port_scan_window
                             /\ Cardinality(candidate.unique_ports) > port_threshold
             emits == is_candidate
                      /\ validate_port_scan_indicators(candidate) > confidence_threshold
             kept == [ip \in DOMAIN candidates \cup {source_ip} |->
                         IF ip = source_ip THEN candidate ELSE candidates[ip]]
         IN  IF emits
             THEN declared_from(logs, n + 1,
                      [ip \in DOMAIN candidates \ {source_ip} |-> candidates[ip]],
                      declared \cup {source_ip})
             ELSE IF is_candidate
             THEN declared_from(logs, n + 1, kept, declared \cup {source_ip})
             ELSE declared_from(logs, n + 1, kept, declared)

\* the sources PortScanningDetector.detect declares candidates in a batch
declared_candidates(logs) == declared_from(logs, 1, <<>>, {})

-----------------------------------------------------------------------------
(* Batches of flow logs *)

RECURSIVE Scan(_, _, _, _, _, _, _)
\* n records of src trying the ports from port on, one every step seconds
Scan(batch, src, port, n, action, start, step) ==
    IF n = 0 THEN <<>>
    ELSE <<FlowRecord(batch, start, src, IpT, port, action)>>
         \o Scan(batch, src, port + 1, n - 1, action, start + step, step)

ScanLen == port_threshold + 1

(* The batches a caller submits: 1 a rejected scan, 2 a scan one port short    *)
(* of the threshold, 3 two scans by one source, 4 a scan by another source     *)
(* behind a record that does not parse, 5 nothing that parses.                 *)
Batches ==
    <<Scan(1, IpA, 20, ScanLen, "REJECT", 0, 1),
      Scan(2, IpA, 20, ScanLen - 1, "REJECT", 0, 1),
      Scan(3, IpA, 20, ScanLen, "REJECT", 0, 1) \o Scan(3, IpA, 100, ScanLen, "REJECT", 30, 1),
      <<[FlowRecord(4, 0, IpB, IpT, 19, "REJECT") EXCEPT !.parseable = FALSE]>>
          \o Scan(4, IpB, 20, ScanLen, "REJECT", 1, 1),
      <<[FlowRecord(5, 0, IpA, IpT, 20, "REJECT") EXCEPT !.parseable = FALSE]>>>>

\* Saturday 22:10
LateBatchTime == 5 * 86400 + 22 * 3600 + 600

\* Mutant: the batch is read from the processor, where the latest caller put it
flow_logs_of_shared(w) ==
    frame[CHOOSE v \in Workers :
              /\ frame[v].phase = "running"
              /\ \A u \in Workers : frame[u].phase = "running" => u <= v].flow_logs

\* the parameter flow_logs of the call worker w is in
flow_logs_of(w) == frame[w].flow_logs

\* A caller on worker w enters process_flow_logs with one of the batches
Submit(w) ==
    /\ frame[w].phase = "idle"
    /\ \E b \in DOMAIN Batches :
          frame' = [frame EXCEPT ![w] =
                       [IdleFrame EXCEPT !.phase = "running", !.batch = b,
                                         !.flow_logs = Batches[b]]]
    /\ UNCHANGED <<breakerVars, manager, assessment, store, service, publisher>>

(* The call of worker w runs to its return. Of the detectors only the port    *)
(* scan detector finds something in these batches; the ML models find         *)
(* nothing or flag the first record they are given.                            *)
Finish(w) ==
    /\ frame[w].phase = "running"
    /\ \E timed_out \in BOOLEAN :
       LET t == LateBatchTime
           logs == flow_logs_of(w)
           parsed == parse_flow_logs(logs)
           found == detect(parsed, t)
           runs == IF found = <<>> THEN <<>> ELSE <<Run("port_scanning", found)>>
           tier1 == tier1_fast_screening(parsed /= <<>>, runs, timed_out)
       IN
       \E ml \in (IF tier1.anomalies /= <<>>
                  THEN {[raised |-> FALSE, anomalies |-> <<>>],
                        [raised |-> FALSE,
                         anomalies |-> <<MLAnomaly(<<"ml", 1>>, <<logs[1]>>, 100, t + 30)>>]}
                  ELSE {[raised |-> FALSE, anomalies |-> <<>>]}) :
       LET n_all == Len(tier1.anomalies) + Len(tier2_ml_analysis(tier1.anomalies, ml)) IN
       \E correlation_raises \in (IF n_all >= 2 THEN BOOLEAN ELSE {FALSE}),
          validation_raises \in (IF n_all >= 1 THEN BOOLEAN ELSE {FALSE}) :
            frame' = [frame EXCEPT ![w] =
                Returned(frame[w].batch, frame[w].flow_logs, parsed /= <<>>, runs, timed_out,
                         process_flow_logs(tier1, ml, correlation_raises, validation_raises),
                         correlation_raises, validation_raises)]
    /\ UNCHANGED <<breakerVars, manager, assessment, store, service, publisher>>

\* Several workers, their calls overlapping
BatchNext ==
    \/ \E w \in Workers : Submit(w)
    \/ \E w \in Workers : Finish(w)
    \/ \E w \in Workers : Collect(w)

BatchSpec == PipeInit /\ [][BatchNext]_vars

-----------------------------------------------------------------------------
(* Calls of _calculate_priority on its own *)

\* confidences from 0 to 1 in steps of 0.01, in millionths
Confidences == {k * 10000 : k \in 0..100}

PriorityInit ==
    /\ breaker = NewCircuitBreaker
    /\ now = 0
    /\ pc = [c \in Callers |-> "idle"]
    /\ last_call = NoCall
    /\ has_fallback = FALSE
    /\ fail_run = 0
    /\ succ_run = 0
    /\ frame = [w \in Workers |-> IdleFrame]
    /\ manager = NewMLModelManager
    /\ store = NewStore
    /\ service = NewService
    /\ publisher = NewPublisherManager
    /\ \E severity \in DOMAIN severity_scores, confidence \in Confidences :
          assessment = [phase |-> "called", severity |-> severity,
                        confidence |-> confidence, priority |-> 0]

CalculatePriority ==
    /\ assessment.phase = "called"
    /\ assessment' = [assessment EXCEPT
            !.phase = "returned",
            !.priority = calculate_priority(assessment.severity, assessment.confidence)]
    /\ UNCHANGED <<breakerVars, frame, manager, store, service, publisher>>

PriorityNext == CalculatePriority

PrioritySpec == PriorityInit /\ [][PriorityNext]_vars

-----------------------------------------------------------------------------
(* Calls of PortScanningDetector.detect on its own *)

(* The batches detect is given: a source may send one record to port 19 at     *)
(* second 0, and tries n ports from 20 on, one every step seconds from start.  *)
DetectBatches ==
    {(IF lead THEN <<FlowRecord(0, 0, IpA, IpT, 19, action)>> ELSE <<>>)
        \o Scan(0, IpA, 20, n, action, start, step) :
        lead \in BOOLEAN, action \in {"REJECT", "ACCEPT"},
        n \in {ScanLen - 1, ScanLen, 2 * ScanLen},
        start \in {0, port_scan_window \div 2, port_scan_window + 1},
        step \in {1, 7}}

DetectInit ==
    /\ breaker = NewCircuitBreaker
    /\ now = 0
    /\ pc = [c \in Callers |-> "idle"]
    /\ last_call = NoCall
    /\ has_fallback = FALSE
    /\ fail_run = 0
    /\ succ_run = 0
    /\ manager = NewMLModelManager
    /\ assessment = NoAssessment
    /\ store = NewStore
    /\ service = NewService
    /\ publisher = NewPublisherManager
    /\ \E logs \in DetectBatches :
          frame = [w \in Workers |->
                     IF w = 1
                     THEN [IdleFrame EXCEPT !.phase = "detecting", !.flow_logs = logs]
                     ELSE IdleFrame]

\* PortScanningDetector.detect on the batch handed in
Detect(w) ==
    /\ frame[w].phase = "detecting"
    /\ frame' = [frame EXCEPT ![w] =
            [@ EXCEPT !.phase = "detected",
                      !.all_anomalies = detect(frame[w].flow_logs, LateBatchTime)]]
    /\ UNCHANGED <<breakerVars, manager, assessment, store, service, publisher>>

DetectNext == Detect(1)

DetectSpec == DetectInit /\ [][DetectNext]_vars

-----------------------------------------------------------------------------
(* Flow logs as the caller's dicts, and what Tiers 1 and 2 make of them *)

Digits == <<"0", "1", "2", "3", "4", "5", "6", "7", "8", "9">>

is_digit(c) == \E d \in DOMAIN Digits : Digits[d] = c

digit_of(c) == (CHOOSE d \in DOMAIN Digits : Digits[d] = c) - 1

RECURSIVE digits_value(_, _)
digits_value(text, acc) ==
    IF text = <<>> THEN acc
    ELSE digits_value(Tail(text), 10 * acc + digit_of(Head(text)))

(* A value of a dict of the batch: an int, a str (text, its characters),       *)
(* None, or no value because the key is absent.                                *)
IntValue(n) == [type |-> "int", num |-> n, text |-> <<>>]
StrValue(text) == [type |-> "str", num |-> 0, text |-> text]
NoneValue == [type |-> "NoneType", num |-> 0, text |-> <<>>]
AbsentKey == [type |-> "absent", num |-> 0, text |-> <<>>]

\* dict.get(key, default)
dict_get(v, default) == IF v.type = "absent" THEN default ELSE v

(* int(v): an int is itself; a str is an optional sign and at least one        *)
(* digit, anything else raises ValueError; None raises TypeError. float(v)     *)
(* accepts and rejects the same of these values (no text here has a point or   *)
(* an exponent).                                                               *)
python_int(v) ==
    IF v.type = "int" THEN [raised |-> FALSE, value |-> v.num]
    ELSE IF v.type = "str"
    THEN LET signed == v.text /= <<>> /\ Head(v.text) \in {"-", "+"}
             digits == IF signed THEN Tail(v.text) ELSE v.text
         IN  IF digits /= <<>> /\ \A i \in DOMAIN digits : is_digit(digits[i])
             THEN [raised |-> FALSE,
                   value |-> IF signed /\ Head(v.text) = "-"
                             THEN 0 - digits_value(digits, 0)
                             ELSE digits_value(digits, 0)]
             ELSE [raised |-> TRUE, value |-> 0]
    ELSE [raised |-> TRUE, value |-> 0]

\* a dict of the batch; its timestamp is a datetime
RawFlowLog(ts, src, dst, port, action, packets, bytes) ==
    [timestamp |-> ts, source_ip |-> src, destination_ip |-> dst,
     destination_port |-> port, protocol |-> "TCP", action |-> action,
     packets |-> packets, bytes |-> bytes]

(* _tier1_fast_screening, lines 166-184: the FlowLog of one dict, or raised    *)
(* when one of the three int() calls raises.                                   *)
to_flow_log(log) ==
    LET port == python_int(dict_get(log.destination_port, IntValue(0)))
        packets == python_int(dict_get(log.packets, IntValue(1)))
        bytes == python_int(dict_get(log.bytes, IntValue(0)))
    IN  [raised |-> port.raised \/ packets.raised \/ bytes.raised,
         flow_log |->
            [FlowRecord(0, log.timestamp, log.source_ip, log.destination_ip,
                        port.value, log.action)
                EXCEPT !.packets = packets.value, !.bytes = bytes.value]]

RECURSIVE flow_log_objects(_)
\* _tier1_fast_screening, lines 165-187: a dict on which int() raises is skipped
flow_log_objects(logs) ==
    IF logs = <<>> THEN <<>>
    ELSE (IF to_flow_log(Head(logs)).raised THEN <<>>
          ELSE <<to_flow_log(Head(logs)).flow_log>>)
         \o flow_log_objects(Tail(logs))

(* IsolationForestModel._extract_features: the positions in flow_logs of the   *)
(* dicts that give a feature vector, in order; a dict on which float() raises  *)
(* gives none.                                                                 *)
extract_features(flow_logs) ==
    LET gives(log) ==
            /\ ~python_int(dict_get(log.bytes, IntValue(0))).raised
            /\ ~python_int(dict_get(log.packets, IntValue(0))).raised
            /\ ~python_int(dict_get(log.packets, IntValue(1))).raised
            /\ ~python_int(dict_get(log.destination_port, IntValue(0))).raised
        positions == [i \in DOMAIN flow_logs |-> i]
    IN  SelectSeq(positions, LAMBDA i : gives(flow_logs[i]))

RECURSIVE zip_predictions(_, _, _, _)
(* IsolationForestModel.detect_anomalies, lines 65-75: prediction i is paired  *)
(* with flow_logs[i]; flagged are the feature vectors the endpoint answers -1. *)
zip_predictions(flow_logs, n, i, flagged) ==
    IF i > n \/ i > Len(flow_logs) THEN <<>>
    ELSE (IF i \in flagged
          THEN <<MLAnomaly(<<"iso", i>>, <<flow_logs[i]>>, 80, LateBatchTime + 30)>>
          ELSE <<>>)
         \o zip_predictions(flow_logs, n, i + 1, flagged)

\* IsolationForestModel.detect_anomalies on an available model whose endpoint answers
detect_anomalies(flow_logs, flagged) ==
    LET features == extract_features(flow_logs) IN
    IF features = <<>> THEN <<>>
    ELSE zip_predictions(flow_logs, Len(features), 1, flagged)

\* the dict in place k of the batch: its odd field holds the value v
OddFlowLog(k, field, v) ==
    LET well == RawFlowLog(k, IpA, IpT, IntValue(19), "REJECT", IntValue(1), IntValue(60)) IN
    CASE field = "destination_port" -> [well EXCEPT !.destination_port = v]
      [] field = "packets" -> [well EXCEPT !.packets = v]
      [] field = "bytes" -> [well EXCEPT !.bytes = v]

\* the values an odd field holds
OddValues ==
    {IntValue(70000), IntValue(65536), IntValue(65535), IntValue(0 - 1), IntValue(0),
     StrValue(<<"h", "t", "t", "p">>), StrValue(<<>>), StrValue(<<"4", "4", "3">>),
     StrValue(<<"-", "5">>), NoneValue, AbsentKey}

(* The batches screened: one source tries n ports from 20 on, one a second,    *)
(* and one more dict of the source, with one odd field, stands in place k.     *)
RawBatches ==
    {[i \in 1..(n + 1) |->
        IF i = k THEN OddFlowLog(k, field, v)
        ELSE RawFlowLog(i, IpA, IpT, IntValue(IF i < k THEN 19 + i ELSE 18 + i),
                        "REJECT", IntValue(1), IntValue(60))] :
        n \in {ScanLen - 1, ScanLen}, k \in {1, 2, ScanLen},
        field \in {"destination_port", "packets", "bytes"}, v \in OddValues}

ScreenInit ==
    /\ breaker = NewCircuitBreaker
    /\ now = 0
    /\ pc = [c \in Callers |-> "idle"]
    /\ last_call = NoCall
    /\ has_fallback = FALSE
    /\ fail_run = 0
    /\ succ_run = 0
    /\ manager = NewMLModelManager
    /\ assessment = NoAssessment
    /\ store = NewStore
    /\ service = NewService
    /\ publisher = NewPublisherManager
    /\ \E logs \in RawBatches :
          frame = [w \in Workers |->
                     IF w = 1
                     THEN [IdleFrame EXCEPT !.phase = "screening", !.flow_logs = logs]
                     ELSE IdleFrame]

(* process_flow_logs up to the end of Tier 2, with the port scan detector in   *)
(* Tier 1 and the Isolation Forest in Tier 2: Tier 1 is given the FlowLog      *)
(* objects, Tier 2 the dicts of the caller.                                    *)
Screen(w) ==
    /\ frame[w].phase = "screening"
    /\ LET flow_logs == frame[w].flow_logs
           parsed == flow_log_objects(flow_logs)
           found == detect(parsed, LateBatchTime)
           tier1 == tier1_fast_screening(parsed /= <<>>,
                        IF found = <<>> THEN <<>> ELSE <<Run("port_scanning", found)>>,
                        FALSE)
       IN  \E flagged \in {{}} \cup {{i} : i \in DOMAIN flow_logs} :
           LET tier2 == tier2_ml_analysis(tier1.anomalies,
                            [raised |-> FALSE,
                             anomalies |-> detect_anomalies(flow_logs, flagged)])
           IN  frame' = [frame EXCEPT ![w] =
                   [@ EXCEPT !.phase = "screened",
                             !.parsed = parsed /= <<>>,
                             !.all_anomalies = tier1.anomalies \o tier2,
                             !.result = [NewProcessingResult EXCEPT
                                            !.tier1_count = Len(tier1.anomalies),
                                            !.tier2_count = Len(tier2)]]]
    /\ UNCHANGED <<breakerVars, manager, assessment, store, service, publisher>>

ScreenNext == Screen(1)

ScreenSpec == ScreenInit /\ [][ScreenNext]_vars

-----------------------------------------------------------------------------
(* Calls of correlate_anomalies on two anomalies *)

\* Monday 10:00:00, 10:00:10, 10:01:00 and 10:02:00
CorrelateTimes == {36000, 36010, 36060, 36120}

(* two anomalies as their detectors build them, in either list order: a port *)
(* scan and a DDoS, a Tor finding and a port scan of one source, a beaconing  *)
(* and a Tor finding of one source                                            *)
CorrelateInputs ==
    UNION {
        {<<PortScanAnomaly(<<"ps", 1>>, src, 25, <<>>, c1, t1),
           DDoSAnomaly(<<"dd", 1>>, IpT, 80, 1500, 150, c2, t2)>>,
         <<DDoSAnomaly(<<"dd", 1>>, IpT, 80, 1500, 150, c2, t2),
           PortScanAnomaly(<<"ps", 1>>, src, 25, <<>>, c1, t1)>>} :
        src \in {IpA, IpT}, c1 \in {82, 94}, c2 \in {85, 90},
        t1 \in CorrelateTimes, t2 \in CorrelateTimes}
    \cup UNION {
        {<<TorUsageAnomaly(<<"tor", 1>>, IpA, 3, 88, t1),
           PortScanAnomaly(<<"ps", 1>>, IpA, 25, <<>>, 94, t2)>>,
         <<PortScanAnomaly(<<"ps", 1>>, IpA, 25, <<>>, 94, t2),
           TorUsageAnomaly(<<"tor", 1>>, IpA, 3, 88, t1)>>,
         <<C2BeaconingAnomaly(<<"c2", 1>>, IpA, IpU, 443, 5, 90, t1),
           TorUsageAnomaly(<<"tor", 1>>, IpA, 3, 88, t2)>>,
         <<TorUsageAnomaly(<<"tor", 1>>, IpA, 3, 88, t2),
           C2BeaconingAnomaly(<<"c2", 1>>, IpA, IpU, 443, 5, 90, t1)>>} :
        t1 \in CorrelateTimes, t2 \in CorrelateTimes}

CorrelateInit ==
    /\ breaker = NewCircuitBreaker
    /\ now = 0
    /\ pc = [c \in Callers |-> "idle"]
    /\ last_call = NoCall
    /\ has_fallback = FALSE
    /\ fail_run = 0
    /\ succ_run = 0
    /\ manager = NewMLModelManager
    /\ assessment = NoAssessment
    /\ store = NewStore
    /\ service = NewService
    /\ publisher = NewPublisherManager
    /\ \E anomalies \in CorrelateInputs :
          frame = [w \in Workers |->
                     IF w = 1
                     THEN [IdleFrame EXCEPT !.phase = "correlating",
                                            !.all_anomalies = anomalies]
                     ELSE IdleFrame]

\* correlate_anomalies on the list handed in
CorrelateAnomalies(w) ==
    /\ frame[w].phase = "correlating"
    /\ frame' = [frame EXCEPT ![w] =
            [@ EXCEPT !.phase = "correlated",
                      !.groups = correlate_anomalies(frame[w].all_anomalies)]]
    /\ UNCHANGED <<breakerVars, manager, assessment, store, service, publisher>>

CorrelateNext == CorrelateAnomalies(1)

CorrelateSpec == CorrelateInit /\ [][CorrelateNext]_vars

-----------------------------------------------------------------------------
(* Operations of the MLModelManager, one after another *)

\* time passes
Wait ==
    /\ manager' = forget_detection(
            [manager EXCEPT !.model_health =
                [m \in Models |->
                    [@[m] EXCEPT !.since_check = Min(@ + WaitStep, 2 * WaitStep)]]])
    /\ UNCHANGED <<breakerVars, frame, assessment, store, service, publisher>>

DetectMlAnomalies ==
    /\ \E check_ok \in [Models -> BOOLEAN], endpoint \in [Models -> {"ok", "error", "none"}] :
          LET after == detect_ml_anomalies(manager, check_ok, endpoint) IN
          /\ within_error_cap(after)
          /\ manager' = after
    /\ UNCHANGED <<breakerVars, frame, assessment, store, service, publisher>>

PerformAllHealthChecks ==
    /\ \E check_ok \in [Models -> BOOLEAN] :
          LET after == forget_detection(perform_all_health_checks(manager, check_ok)) IN
          /\ within_error_cap(after)
          /\ manager' = after
    /\ UNCHANGED <<breakerVars, frame, assessment, store, service, publisher>>

ResetModelErrors(m) ==
    /\ manager' = [forget_detection(reset_model_errors(manager, m))
                        EXCEPT !.disabled[m] = FALSE]
    /\ UNCHANGED <<breakerVars, frame, assessment, store, service, publisher>>

DisableModel(m) ==
    /\ manager' = [forget_detection(disable_model(manager, m))
                        EXCEPT !.disabled[m] = TRUE]
    /\ UNCHANGED <<breakerVars, frame, assessment, store, service, publisher>>

EnableModel(m) ==
    /\ \E check_ok \in BOOLEAN :
          manager' = [forget_detection(enable_model(manager, m, check_ok))
                            EXCEPT !.disabled[m] = FALSE]
    /\ UNCHANGED <<breakerVars, frame, assessment, store, service, publisher>>

ManagerNext ==
    \/ Wait
    \/ DetectMlAnomalies
    \/ PerformAllHealthChecks
    \/ \E m \in Models : ResetModelErrors(m)
    \/ \E m \in Models : DisableModel(m)
    \/ \E m \in Models : EnableModel(m)

ManagerSpec == PipeInit /\ [][ManagerNext]_vars

-----------------------------------------------------------------------------
(* Operations of the CorrelationStateManager instances on one Redis *)

\* the clock moves on
StoreTick ==
    /\ store.clock < MaxClock
    /\ store' = [store EXCEPT !.clock = @ + 1, !.last = NoOp]
    /\ UNCHANGED <<breakerVars, frame, manager, assessment, service, publisher>>

\* instance i enters update_entity_correlation_state and reads the state
UpdateRead(i) ==
    /\ store.inst[i].pc = "idle"
    /\ store.started < MaxUpdates
    /\ \E k \in Keys, delta \in ContextDeltas, get_ok \in BOOLEAN :
       \E anomaly_data \in AnomalyData(store.started + 1, k) :
          store' = [store EXCEPT
              !.inst[i] = [@ EXCEPT
                  !.pc = "read", !.entity_key = k, !.anomaly_data = anomaly_data,
                  !.correlation_context = delta,
                  !.state = update_read(store.redis, k, delta, store.clock, get_ok),
                  !.read_ok = get_ok],
              !.started = @ + 1,
              !.fresh[k] = NoFresh,
              !.last = NoOp]
    /\ UNCHANGED <<breakerVars, frame, manager, assessment, service, publisher>>

\* the store after instance i has appended to the state it read and written
\* it back; set_ok: the SETEX did not raise
written(st, i, set_ok) ==
    LET me == st.inst[i]
        k == me.entity_key
        state == update_modify(me.state, me.anomaly_data, me.correlation_context, st.clock)
    IN [st EXCEPT
           !.redis = IF set_ok THEN update_write(@, k, state, st.clock) ELSE @,
           !.appended[k] = IF set_ok
                           THEN Append(@, anomaly_entry(me.anomaly_data, st.clock))
                           ELSE @,
           !.fresh[k] = IF set_ok
                        THEN [valid |-> TRUE, anomaly_data |-> me.anomaly_data,
                              previous |-> IF redis_live(st.redis, k, st.clock)
                                           THEN st.redis[k].data.correlation_context
                                           ELSE NoContext,
                              delta |-> me.correlation_context,
                              read_ok |-> me.read_ok, at |-> st.clock]
                        ELSE NoFresh,
           !.inst[i] = [NewInstance EXCEPT !.last_cleanup = me.last_cleanup,
                                           !.swept = me.swept],
           !.last = [NoOp EXCEPT !.op = "update", !.entity_key = k,
                                 !.ok = set_ok, !.read_ok = me.read_ok,
                                 !.at = st.clock, !.state = state]]

\* instance i appends, writes the state back and returns
UpdateWrite(i) ==
    /\ store.inst[i].pc = "read"
    /\ \E set_ok \in BOOLEAN : store' = written(store, i, set_ok)
    /\ UNCHANGED <<breakerVars, frame, manager, assessment, service, publisher>>

\* update_entity_correlation_state from call to return, nobody else in it
UpdateEntity(i) ==
    /\ \A j \in Instances : store.inst[j].pc = "idle"
    /\ store.started < MaxUpdates
    /\ \E k \in Keys, delta \in ContextDeltas, get_ok \in BOOLEAN, set_ok \in BOOLEAN :
       \E anomaly_data \in AnomalyData(store.started + 1, k) :
          store' = written(
              [store EXCEPT
                  !.inst[i] = [@ EXCEPT
                      !.pc = "read", !.entity_key = k, !.anomaly_data = anomaly_data,
                      !.correlation_context = delta,
                      !.state = update_read(store.redis, k, delta, store.clock, get_ok),
                      !.read_ok = get_ok],
                  !.started = IF set_ok THEN @ + 1 ELSE @],
              i, set_ok)
    /\ UNCHANGED <<breakerVars, frame, manager, assessment, service, publisher>>

\* get_entity_correlation_state
GetEntity(i) ==
    /\ store.inst[i].pc = "idle"
    /\ \E k \in Keys, get_ok \in BOOLEAN :
          store' = [store EXCEPT
              !.last = [NoOp EXCEPT
                  !.op = "get", !.entity_key = k, !.ok = get_ok,
                  !.at = store.clock,
                  !.state = get_entity_correlation_state(store.redis, k, store.clock, get_ok)]]
    /\ UNCHANGED <<breakerVars, frame, manager, assessment, service, publisher>>

\* get_related_entities; keys_ok: the KEYS did not raise
GetRelated(i) ==
    /\ store.inst[i].pc = "idle"
    /\ \E k \in Keys, keys_ok \in BOOLEAN :
          store' = [store EXCEPT
              !.last = [NoOp EXCEPT
                  !.op = "related", !.entity_key = k, !.ok = keys_ok,
                  !.at = store.clock,
                  !.related = IF keys_ok
                              THEN get_related_entities(store.redis, k, store.clock)
                              ELSE {}]]
    /\ UNCHANGED <<breakerVars, frame, manager, assessment, service, publisher>>

\* cleanup_expired_states; keys_ok: the KEYS of the sweep did not raise
CleanupExpired(i) ==
    /\ store.inst[i].pc = "idle"
    /\ \E keys_ok \in BOOLEAN :
       LET since == store.clock - store.inst[i].last_cleanup
           sweeps == since >= cleanup_interval /\ keys_ok
           deleted == IF sweeps THEN cleanup_expired(store.redis, store.clock) ELSE {}
       IN store' = [store EXCEPT
              !.redis = redis_delete_all(@, deleted),
              !.fresh = [k \in Keys |-> IF k \in deleted THEN NoFresh ELSE @[k]],
              !.inst[i] = [@ EXCEPT
                  !.last_cleanup = IF sweeps THEN store.clock ELSE @,
                  !.swept = IF sweeps THEN TRUE ELSE @],
              !.last = [NoOp EXCEPT
                  !.op = "cleanup",
                  !.ok = keys_ok \/ since < cleanup_interval,
                  !.at = store.clock, !.since = since,
                  !.first = ~store.inst[i].swept, !.swept = sweeps,
                  !.deleted = deleted,
                  !.expired = {k \in Keys : /\ redis_live(store.redis, k, store.clock)
                                            /\ store.clock > fromisoformat(
                                                   store.redis[k].data.expiry_time)},
                  !.redis_before = store.redis]]
    /\ UNCHANGED <<breakerVars, frame, manager, assessment, service, publisher>>

\* one call at a time
StoreSeqNext ==
    \/ StoreTick
    \/ \E i \in Instances : UpdateEntity(i)
    \/ \E i \in Instances : GetEntity(i)
    \/ \E i \in Instances : GetRelated(i)

StoreSeqSpec == PipeInit /\ [][StoreSeqNext]_vars

\* instances whose calls overlap
StoreNext ==
    \/ \E i \in Instances : UpdateRead(i)
    \/ \E i \in Instances : UpdateWrite(i)
    \/ \E i \in Instances : GetEntity(i)

StoreSpec == PipeInit /\ [][StoreNext]_vars

\* the instance whose periodic sweep is followed
Sweeper == "manager-1"

\* updates, one at a time, and the sweeps of one instance
CleanupNext ==
    \/ StoreTick
    \/ \E i \in Instances : UpdateEntity(i)
    \/ CleanupExpired(Sweeper)

CleanupSpec == PipeInit /\ [][CleanupNext]_vars

-----------------------------------------------------------------------------
(* Specifications *)

Init ==
    /\ BreakerInit
    /\ frame = [w \in Workers |-> IdleFrame]
    /\ manager = NewMLModelManager
    /\ assessment = NoAssessment
    /\ store = NewStore
    /\ service = NewService
    /\ publisher = NewPublisherManager

\* Calls may overlap: the lock is released while the wrapped operation runs
Next ==
    \/ Tick
    \/ \E c \in Callers : Call(c)
    \/ \E c \in Callers : Succeed(c)
    \/ \E c \in Callers : FailError(c)
    \/ \E c \in Callers : FailTimeout(c)

Spec == Init /\ [][Next]_vars

\* Sequential calls: a call starts only when no other is in flight
SeqNext ==
    \/ Tick
    \/ \E c \in Callers : NoneRunning /\ Call(c)
    \/ \E c \in Callers : Succeed(c)
    \/ \E c \in Callers : FailError(c)
    \/ \E c \in Callers : FailTimeout(c)

SeqSpec == Init /\ [][SeqNext]_vars

(* The clock stops at MaxTime: a failure is taken only while recovery_timeout *)
(* can still elapse after it                                                  *)
FailureCanBeOutlived == now + recovery_timeout <= MaxTime

LiveNext ==
    \/ Tick
    \/ \E c \in Callers : Call(c)
    \/ \E c \in Callers : Succeed(c)
    \/ \E c \in Callers : FailureCanBeOutlived /\ FailError(c)
    \/ \E c \in Callers : FailureCanBeOutlived /\ FailTimeout(c)

(* time passes, calls keep arriving, and the wrapped operation, awaited under *)
(* asyncio.wait_for, comes to an end                                          *)
LiveFairness ==
    /\ WF_vars(Tick)
    /\ \A c \in Callers : WF_vars(Call(c))
    /\ \A c \in Callers : WF_vars(Succeed(c))

LiveSpec == Init /\ [][LiveNext]_vars /\ LiveFairness

-----------------------------------------------------------------------------
(* Calls of ServiceResilienceManager.execute_service, one at a time *)

(* execute_service from call to return: the breaker's gate, the wrapped       *)
(* operation, the fallback when there is one, and the metrics                 *)
ExecuteService(c) ==
    /\ NoneRunning
    /\ service.global_metrics.total_calls < MaxServiceCalls
    /\ \E primary \in {"ok", "error", "timeout"}, fb \in FallbackOutcomes,
          timeout_exc \in {"CircuitBreakerError", "TimeoutError"}, mentions \in BOOLEAN :
          LET g == call_gate(breaker, now)
              seq == 1 - last_call.seq
              result ==
                  IF ~g.admitted
                  THEN execute_result(c, "not_invoked", "CircuitBreakerError", fb, seq)
                  ELSE IF primary = "ok"
                  THEN execute_result(c, "ok", "none", "ok", seq)
                  ELSE IF primary = "error"
                  THEN execute_result(c, "error", "Exception", fb, seq)
                  ELSE execute_result(c, "timeout", timeout_exc, fb, seq)
          IN /\ breaker' = IF ~g.admitted THEN g.breaker
                           ELSE IF primary = "ok" THEN on_success(g.breaker)
                           ELSE on_failure(g.breaker, now)
             /\ last_call' = result
             /\ service' = execute_service(service, result, has_fallback, mentions)
    /\ UNCHANGED <<now, pc, has_fallback, fail_run, succ_run,
                   frame, manager, assessment, store, publisher>>

ServiceNext ==
    \/ Tick
    \/ \E c \in Callers : ExecuteService(c)

ServiceSpec == Init /\ [][ServiceNext]_vars

-----------------------------------------------------------------------------
(* Calls of the EventPublisherManager *)

\* EventPublisherManager(primary_bus, fallback_bus)
Construct ==
    /\ publisher.pc = "new"
    /\ \E fallback_bus \in BOOLEAN :
          publisher' = [publisher EXCEPT
              !.pc = "ready",
              !.fallback_publisher = IF fallback_bus THEN NewEventPublisher
                                     ELSE NoEventPublisher]
    /\ UNCHANGED <<breakerVars, frame, manager, assessment, store, service>>

\* EventPublisherManager.publish_anomaly
PublishAnomaly ==
    /\ publisher.pc = "ready"
    /\ publisher.calls + publisher.batch_items < MaxPublishCalls
    /\ \E o1 \in PutOutcomes, o2 \in PutOutcomes :
          LET after == manager_publish_anomaly(publisher, o1, o2) IN
          publisher' = [after EXCEPT
              !.calls = @ + 1,
              !.fallback_successes = IF after.last.fallback_ok THEN @ + 1 ELSE @]
    /\ UNCHANGED <<breakerVars, frame, manager, assessment, store, service>>

\* EventPublisherManager.publish_batch
PublishBatch ==
    /\ publisher.pc = "ready"
    /\ publisher.calls + publisher.batch_items < MaxPublishCalls
    /\ \E n \in BatchSizes, o1 \in ChunkOutcomes, o2 \in ChunkOutcomes :
          publisher' = [manager_publish_batch(publisher, n, <<o1, o2>>) EXCEPT
                           !.batch_items = @ + n]
    /\ UNCHANGED <<breakerVars, frame, manager, assessment, store, service>>

PublishNext ==
    \/ Construct
    \/ PublishAnomaly
    \/ PublishBatch

PublishSpec == PipeInit /\ [][PublishNext]_vars

-----------------------------------------------------------------------------
(* Properties of Part I *)

\* A call of caller c starts in this step (and, when rejected, ends in it)
CallStarts(c) ==
    /\ pc[c] = "idle"
    /\ \/ pc'[c] = "running"
       \/ last_call' /= last_call /\ last_call'.caller = c

\* A call whose wrapped operation was running ends in this step
SuccessFinished ==
    \E c \in Callers : pc[c] = "running" /\ pc'[c] = "idle" /\ last_call'.primary = "ok"

FailureFinished ==
    \E c \in Callers :
        pc[c] = "running" /\ pc'[c] = "idle" /\ last_call'.primary \in {"error", "timeout"}

RecoveryPending ==
    /\ breaker.state = OPEN
    /\ breaker.last_failure_time /= None
    /\ now - breaker.last_failure_time < recovery_timeout

(* C1: under sequential calls a CLOSED breaker opens exactly when the number  *)
(* of consecutive failed calls reaches failure_threshold; a successful call   *)
(* resets the count to 0, so fewer consecutive failures never open it.        *)
C1_ClosedOpensExactlyAtThreshold ==
    [][breaker.state = CLOSED =>
          /\ breaker'.state \in {CLOSED, OPEN}
          /\ (breaker'.state = OPEN) <=> (fail_run' >= failure_threshold)
          /\ breaker'.failure_count = fail_run'
          /\ SuccessFinished => breaker'.failure_count = 0 /\ breaker'.state = CLOSED
      ]_vars

C1_Witness ==
    /\ breaker.state = OPEN
    /\ fail_run = failure_threshold
    /\ last_call.primary \in {"error", "timeout"}
    /\ NoneRunning

(* C2 (as claimed): in HALF_OPEN any single failed call moves the breaker to  *)
(* OPEN, whatever the number of successes since HALF_OPEN was entered.        *)
C2_HalfOpenFailureOpens ==
    [][(breaker.state = HALF_OPEN /\ FailureFinished) => breaker'.state = OPEN]_vars

(* C3 (as claimed): HALF_OPEN moves to CLOSED only after success_threshold    *)
(* successful calls in a row, a failed call in between restarting the count.  *)
C3_ClosesOnlyAfterConsecutiveSuccesses ==
    [][(breaker.state = HALF_OPEN /\ breaker'.state = CLOSED)
          => succ_run' >= success_threshold]_vars

(* C4: while the breaker is OPEN and fewer than recovery_timeout seconds      *)
(* have passed since the last failure, a call raises CircuitBreakerError      *)
(* without invoking the wrapped operation and leaves state, failure_count,    *)
(* success_count and last_failure_time as they were.                          *)
C4_OpenRejectsAndLeavesBreaker ==
    [][\A c \in Callers :
          (CallStarts(c) /\ RecoveryPending) =>
              /\ pc'[c] = "idle"
              /\ last_call'.caller = c
              /\ last_call'.primary = "not_invoked"
              /\ last_call'.call_raised = "CircuitBreakerError"
              /\ breaker' = breaker
      ]_vars

C4_Witness ==
    /\ RecoveryPending
    /\ last_call.primary = "not_invoked"
    /\ last_call.call_raised = "CircuitBreakerError"
    /\ breaker.failure_count >= failure_threshold

(* C5: the breaker leaves OPEN only into HALF_OPEN, only on a call arriving   *)
(* at least recovery_timeout seconds after the last recorded failure, and     *)
(* that call is admitted and invokes the wrapped operation.                   *)
C5_OpenLeavesOnlyToHalfOpenAfterTimeout ==
    [][(breaker.state = OPEN /\ breaker'.state /= OPEN) =>
          /\ breaker'.state = HALF_OPEN
          /\ breaker.last_failure_time /= None
          /\ now - breaker.last_failure_time >= recovery_timeout
          /\ \E c \in Callers : pc[c] = "idle" /\ pc'[c] = "running"
          /\ last_call' = last_call
      ]_vars

C5_Witness ==
    /\ breaker.state = HALF_OPEN
    /\ breaker.failure_count >= failure_threshold
    /\ now - breaker.last_failure_time >= recovery_timeout
    /\ \E c \in Callers : pc[c] = "running"

(* C6 (as claimed): with overlapping calls too, the state changes only        *)
(* CLOSED->OPEN (with at least failure_threshold consecutive failures),       *)
(* OPEN->HALF_OPEN (recovery timeout elapsed), HALF_OPEN->CLOSED (with at     *)
(* least success_threshold consecutive successes) and HALF_OPEN->OPEN.        *)
C6_OnlyDocumentedTransitions ==
    [][breaker'.state /= breaker.state =>
          \/ /\ breaker.state = CLOSED /\ breaker'.state = OPEN
             /\ fail_run' >= failure_threshold
          \/ /\ breaker.state = OPEN /\ breaker'.state = HALF_OPEN
             /\ now - breaker.last_failure_time >= recovery_timeout
          \/ /\ breaker.state = HALF_OPEN /\ breaker'.state = CLOSED
             /\ succ_run' >= success_threshold
          \/ /\ breaker.state = HALF_OPEN /\ breaker'.state = OPEN
             /\ FailureFinished
      ]_vars

(* C7: ResilientService.execute on an OPEN breaker whose recovery timeout     *)
(* has not elapsed never invokes the primary operation; with a fallback       *)
(* registered it invokes the fallback and returns its result, without one it  *)
(* raises CircuitBreakerError to the caller.                                  *)
C7_OpenBreakerGoesToFallbackOrRaises ==
    [][\A c \in Callers :
          (CallStarts(c) /\ breaker.state = OPEN /\ ~should_attempt_reset(breaker, now)) =>
              /\ pc'[c] = "idle"
              /\ last_call'.caller = c
              /\ last_call'.primary = "not_invoked"
              /\ IF has_fallback
                 THEN /\ last_call'.fallback \in FallbackOutcomes
                      /\ last_call'.fallback = "ok" =>
                            last_call'.returned = "fallback" /\ last_call'.raised = "none"
                      /\ last_call'.fallback = "error" =>
                            last_call'.returned = "nothing" /\ last_call'.raised = "FallbackError"
                 ELSE /\ last_call'.fallback = "not_invoked"
                      /\ last_call'.returned = "nothing"
                      /\ last_call'.raised = "CircuitBreakerError"
      ]_vars

C7_Witness ==
    /\ breaker.state = OPEN
    /\ ~should_attempt_reset(breaker, now)
    /\ has_fallback
    /\ last_call.primary = "not_invoked"
    /\ last_call.fallback = "ok"
    /\ last_call.returned = "fallback"

-----------------------------------------------------------------------------
(* Properties of Part II *)

\* the anomalies of a correlation group, the primary one first
Members(g) ==
    <<g.primary_anomaly>>
    \o [n \in 1..Len(g.related_anomalies) |-> g.related_anomalies[n].anomaly]

\* the places <<group, position>> at which anomaly a stands in groups
Places(a, groups) ==
    {pl \in UNION {{<<gi, mi>> : mi \in 1..Len(Members(groups[gi]))} : gi \in DOMAIN groups} :
        Members(groups[pl[1]])[pl[2]] = a}

\* the batches whose records anomaly a was built from
BatchesOf(a) ==
    {a.connections[n].batch : n \in DOMAIN a.connections}
    \cup {a.flow_log[n].batch : n \in DOMAIN a.flow_log}

(* C8: of the anomalies handed to Tier 3 - through correlate_anomalies, the    *)
(* single-anomaly path or the fallback after a failed correlation - each one   *)
(* stands in exactly one returned group, as its primary or as one related      *)
(* anomaly, and the groups hold no anomaly that was not handed in.             *)
C8_EachAnomalyInExactlyOneGroup ==
    \A w \in Workers :
        frame[w].phase = "returned" =>
            LET input == frame[w].all_anomalies
                groups == frame[w].groups
            IN  /\ \A n \in DOMAIN input : Cardinality(Places(input[n], groups)) = 1
                /\ \A gi \in DOMAIN groups :
                      \A mi \in DOMAIN Members(groups[gi]) :
                          \E n \in DOMAIN input : input[n] = Members(groups[gi])[mi]

C8_Witness ==
    \E w \in Workers :
        /\ frame[w].phase = "returned"
        /\ ~frame[w].correlation_raised
        /\ Len(frame[w].all_anomalies) >= 3
        /\ Len(frame[w].groups) >= 2
        /\ \E gi \in DOMAIN frame[w].groups :
              Len(frame[w].groups[gi].related_anomalies) >= 1

(* C9: every finding process_flow_logs returns has confidence >= 0.8, or was   *)
(* admitted by the Tier-4 fallback, and then its primary anomaly's confidence  *)
(* is > 0.7 and its validation metadata says fallback.                         *)
C9_FindingsPassGateOrFallback ==
    \A w \in Workers :
        frame[w].phase = "returned" =>
            \A n \in DOMAIN frame[w].result.anomalies :
                LET finding == frame[w].result.anomalies[n] IN
                \/ finding.confidence_score >= 800000
                \/ /\ frame[w].validation_raised
                   /\ finding.validation_result.fallback
                   /\ confidence_or_default(finding.correlation_group.primary_anomaly) > 70

C9_Witness ==
    \E w \in Workers :
        /\ frame[w].phase = "returned"
        /\ frame[w].validation_raised
        /\ Len(frame[w].result.anomalies) < Len(frame[w].groups)
        /\ \E n \in DOMAIN frame[w].result.anomalies :
              /\ frame[w].result.anomalies[n].validation_result.fallback
              /\ Len(frame[w].result.anomalies[n].correlation_group.related_anomalies) >= 1

(* C10: whatever batches the workers of one processor take, one after the      *)
(* other or at the same time, the primary and the related anomalies of every   *)
(* finding returned for a batch were built from records of that batch.         *)
C10_FindingsComeFromTheirBatch ==
    \A w \in Workers :
        frame[w].phase = "returned" =>
            \A n \in DOMAIN frame[w].result.anomalies :
                LET members == Members(frame[w].result.anomalies[n].correlation_group) IN
                \A mi \in DOMAIN members : BatchesOf(members[mi]) = {frame[w].batch}

C10_Witness ==
    \E w, v \in Workers :
        /\ w /= v
        /\ frame[w].phase = "returned"
        /\ frame[v].phase = "returned"
        /\ frame[v].batch /= frame[w].batch
        /\ frame[v].result.anomalies /= <<>>
        /\ \E n \in DOMAIN frame[w].result.anomalies :
              Len(frame[w].result.anomalies[n].correlation_group.related_anomalies) >= 1

\* the anomalies Tier 1 and Tier 2 gave to a call that has returned
Tier1Part(f) == SubSeq(f.all_anomalies, 1, f.result.tier1_count)
Tier2Part(f) == SubSeq(f.all_anomalies, f.result.tier1_count + 1, Len(f.all_anomalies))

\* every detector emits one threat type: the types stand for the detectors that found something
Contributors(f) == {Tier1Part(f)[n].threat_type : n \in DOMAIN Tier1Part(f)}

RECURSIVE InOrder(_, _)
\* the Tier-1 list had the contributing detectors completed in the order o
InOrder(f, o) ==
    IF o = <<>> THEN <<>>
    ELSE SelectSeq(Tier1Part(f), LAMBDA a : a.threat_type = Head(o)) \o InOrder(f, Tail(o))

\* an anomaly, a group, a finding without identifiers and timestamps
StripAnomaly(a) == [a EXCEPT !.oid = <<>>, !.detection_timestamp = 0]

StripGroup(g) ==
    [primary_anomaly |-> StripAnomaly(g.primary_anomaly),
     related_anomalies |->
         [n \in DOMAIN g.related_anomalies |->
             [anomaly |-> StripAnomaly(g.related_anomalies[n].anomaly),
              correlation_score |-> g.related_anomalies[n].correlation_score]],
     group_confidence |-> g.group_confidence]

StripFinding(x) == [x EXCEPT !.correlation_group = StripGroup(@)]

StripFindings(xs) == {StripFinding(xs[n]) : n \in DOMAIN xs}

(* C11 (as claimed): processing the same batch again gives the same findings  *)
(* - groups, primaries, related members, confidences, severities, priorities,  *)
(* identifiers and timestamps left aside - in whatever order the Tier-1        *)
(* detectors complete.                                                         *)
C11_FindingsIndependentOfCompletionOrder ==
    \A w \in Workers :
        frame[w].phase = "returned" =>
            \A o \in CompletionOrders(Contributors(frame[w])) :
                StripFindings(
                    tier4_validation(
                        tier3_correlation_analysis(InOrder(frame[w], o) \o Tier2Part(frame[w]),
                                                   frame[w].correlation_raised),
                        frame[w].validation_raised))
                = StripFindings(frame[w].result.anomalies)


\* the runs, each run that raised replaced by a run that returned []
EmptiedRuns(runs) ==
    [n \in DOMAIN runs |->
        IF runs[n].raised THEN Run(runs[n].detector, <<>>) ELSE runs[n]]

\* what detect_ml_anomalies must have returned for Tier 2 to add what it added
MLSeen(f) == [raised |-> FALSE, anomalies |-> Tier2Part(f)]

\* what the call returned, beside its locals
Outcome(f) == [result |-> f.result, all_anomalies |-> f.all_anomalies, groups |-> f.groups]

\* the outcome of the same call had every detector that raised, or that had
\* not finished at the deadline, returned [] in time
OutcomeWithEmptyLists(f) ==
    process_flow_logs(tier1_fast_screening(f.parsed, EmptiedRuns(f.runs), FALSE),
                      MLSeen(f), f.correlation_raised, f.validation_raised)

(* C12: whichever detectors raise, a call whose Tier 1 meets its deadline      *)
(* returns without an error result, and its outcome (counts, groups,           *)
(* findings) is the outcome it would have had if each raising detector had     *)
(* returned an empty list.                                                     *)
C12_RaisingDetectorCountsAsEmpty ==
    \A w \in Workers :
        (frame[w].phase = "returned" /\ ~frame[w].timed_out) =>
            /\ ~frame[w].result.error
            /\ Outcome(frame[w]) = OutcomeWithEmptyLists(frame[w])

\* one detector raised, another found something, and a finding came out
C12_Witness ==
    \E w \in Workers :
        /\ frame[w].phase = "returned"
        /\ ~frame[w].timed_out
        /\ \E n \in DOMAIN frame[w].runs : frame[w].runs[n].raised
        /\ \E n \in DOMAIN frame[w].runs : frame[w].runs[n].anomalies /= <<>>
        /\ frame[w].result.anomalies /= <<>>

(* C13 (as claimed): when the Tier-1 deadline expires with detectors still     *)
(* running, the call does not return an error result, and its outcome is the   *)
(* outcome it would have had if the unfinished detectors had returned empty    *)
(* lists: what the finished detectors returned is kept.                        *)
C13_DeadlineKeepsFinishedDetectors ==
    \A w \in Workers :
        (frame[w].phase = "returned" /\ frame[w].parsed /\ frame[w].timed_out) =>
            /\ ~frame[w].result.error
            /\ Outcome(frame[w]) = OutcomeWithEmptyLists(frame[w])


\* the confidence an anomaly carries: confidence_score on the statistical
\* anomalies, confidence on MLAnomaly and BaselineDeviation
OwnConfidence(a) == IF a.confidence_score /= None THEN a.confidence_score ELSE a.confidence

\* the positions of the groups the fallback has to admit
Admissible(groups) ==
    {k \in DOMAIN groups : OwnConfidence(groups[k].primary_anomaly) > 70}

(* C14 (as claimed): when the validator raises, the findings are exactly the   *)
(* groups whose primary anomaly has confidence above 0.7, one finding per      *)
(* such group and none for any other group (none at exactly 0.7), each at      *)
(* severity MEDIUM and marked fallback.                                        *)
C14_FallbackAdmitsExactlyAbovePointSeven ==
    \A w \in Workers :
        (frame[w].phase = "returned" /\ frame[w].validation_raised) =>
            LET groups == frame[w].groups
                found == frame[w].result.anomalies
            IN /\ Len(found) = Cardinality(Admissible(groups))
               /\ \A k \in Admissible(groups) :
                      \E n \in DOMAIN found : found[n].correlation_group = groups[k]
               /\ \A n \in DOMAIN found :
                      /\ found[n].final_threat_assessment.severity = "MEDIUM"
                      /\ found[n].validation_result.fallback
                      /\ \E k \in Admissible(groups) : found[n].correlation_group = groups[k]


-----------------------------------------------------------------------------
(* Properties, Part III: MLModelManager *)

(* C15: whatever detections, health checks, waits, resets, disables and        *)
(* enables came before, detect_ml_anomalies makes a client's detection call    *)
(* only when, at that moment, the client's health record has is_healthy true   *)
(* and error_count below max_error_count.                                      *)
C15_ClientCalledOnlyWhenUsable ==
    \A m \in Models :
        manager.last_detection[m].invoked =>
            /\ manager.last_detection[m].is_healthy
            /\ manager.last_detection[m].error_count < max_error_count

\* a detection called one client and left out the other, which was healthy
\* but at the error cap
C15_Witness ==
    \E m, q \in Models :
        /\ manager.last_detection[m].invoked
        /\ ~manager.last_detection[q].invoked
        /\ manager.model_health[q].is_healthy
        /\ manager.model_health[q].error_count >= max_error_count

(* C16 (as claimed): a detection call whose endpoint request fails leaves the  *)
(* client's error_count one higher than it was at the call, and one whose      *)
(* request succeeds leaves it one lower, but not below 0.                      *)
C16_ErrorCountFollowsInference ==
    \A m \in Models :
        manager.last_detection[m].invoked =>
            /\ manager.last_detection[m].endpoint = "error" =>
                   manager.last_detection[m].error_count_after
                       = manager.last_detection[m].error_count + 1
            /\ manager.last_detection[m].endpoint = "ok" =>
                   manager.last_detection[m].error_count_after
                       = Max(0, manager.last_detection[m].error_count - 1)


-----------------------------------------------------------------------------
(* Properties, Part IV: MultiStageValidationEngine *)

StageNames == {"whitelist", "contextual", "threat_specific", "historical"}

\* the findings of a call that belong to a group
FindingsOf(f, g) ==
    {n \in DOMAIN f.result.anomalies : f.result.anomalies[n].correlation_group = g}

(* C17: for every group the validator is handed, the result carries the four   *)
(* stage flags, each flag false exactly when its stage gave a reason; the      *)
(* group is valid exactly when all four flags are true; the failure reasons    *)
(* are those of stage 1, 2, 3 and 4 in this order, whichever stages failed     *)
(* before; and a finding is emitted only for a valid group, with this result.  *)
C17_ValidIffAllFourStagesPass ==
    \A w \in Workers :
        (frame[w].phase = "returned" /\ ~frame[w].validation_raised) =>
            \A k \in DOMAIN frame[w].groups :
                LET g == frame[w].groups[k]
                    v == apply_multistage_validation(g)
                IN /\ DOMAIN v.validation_stages = StageNames
                   /\ v.is_valid <=> \A st \in StageNames : v.validation_stages[st]
                   /\ v.validation_stages.whitelist <=> stage1_whitelist_validation(g) = <<>>
                   /\ v.validation_stages.contextual <=> stage2_contextual_validation(g) = <<>>
                   /\ v.validation_stages.threat_specific
                          <=> stage3_threat_specific_validation(g) = <<>>
                   /\ v.validation_stages.historical <=> stage4_historical_validation(g) = <<>>
                   /\ v.failure_reasons = stage1_whitelist_validation(g)
                                           \o stage2_contextual_validation(g)
                                           \o stage3_threat_specific_validation(g)
                                           \o stage4_historical_validation(g)
                   /\ \A n \in FindingsOf(frame[w], g) :
                          /\ v.is_valid
                          /\ frame[w].result.anomalies[n].validation_result = v

\* one group failed stage 1 and stage 3, another passed all four and was emitted
C17_Witness ==
    \E w \in Workers :
        /\ frame[w].phase = "returned"
        /\ ~frame[w].validation_raised
        /\ \E k \in DOMAIN frame[w].groups :
              /\ stage1_whitelist_validation(frame[w].groups[k]) /= <<>>
              /\ stage3_threat_specific_validation(frame[w].groups[k]) /= <<>>
              /\ FindingsOf(frame[w], frame[w].groups[k]) = {}
        /\ \E k \in DOMAIN frame[w].groups :
              FindingsOf(frame[w], frame[w].groups[k]) /= {}


\* the primary's source is a whitelisted address or lies in a whitelisted /24,
\* or its destination is a whitelisted address
WhitelistedPrimary(g) ==
    LET source_ip == g.primary_anomaly.source_ip
        dest_ip == dest_ip_of(g.primary_anomaly)
    IN \/ source_ip /= NoIp /\ source_ip \in whitelisted_ips
       \/ source_ip /= NoIp /\ \E sn \in whitelisted_subnets : source_ip[1] = sn[1]
       \/ dest_ip /= NoIp /\ dest_ip \in whitelisted_ips

(* C18 (as claimed): no call of process_flow_logs returns a finding for a      *)
(* group whose primary is whitelisted by source address, source /24 or         *)
(* destination address; the whitelist stage gives a reason for such a group.   *)
C18_NoFindingForWhitelistedPrimary ==
    \A w \in Workers :
        frame[w].phase = "returned" =>
            \A k \in DOMAIN frame[w].groups :
                WhitelistedPrimary(frame[w].groups[k]) =>
                    /\ FindingsOf(frame[w], frame[w].groups[k]) = {}
                    /\ stage1_whitelist_validation(frame[w].groups[k]) /= <<>>


(* C19 (as claimed): a group whose primary is a Tor anomaly with exactly 2     *)
(* Tor nodes fails the threat-specific stage, and one with 3 passes it.        *)
C19_TwoTorIndicatorsFailThreePass ==
    \A w \in Workers :
        (frame[w].phase = "returned" /\ ~frame[w].validation_raised) =>
            \A k \in DOMAIN frame[w].groups :
                LET g == frame[w].groups[k]
                    v == apply_multistage_validation(g)
                IN g.primary_anomaly.threat_type = "TOR_USAGE" =>
                      /\ g.primary_anomaly.tor_nodes = 2 => ~v.validation_stages.threat_specific
                      /\ g.primary_anomaly.tor_nodes = 3 => v.validation_stages.threat_specific


\* x / d rounded to the nearest integer (d > 0)
RoundDiv(x, d) == (2 * x + d) \div (2 * d)

(* C20 (as claimed): for every severity and every confidence in [0,1] the      *)
(* priority is base(severity) + round((confidence - 0.5) * 4), clamped to      *)
(* [1,10], with base LOW 2, MEDIUM 5, HIGH 8, CRITICAL 10.                     *)
C20_PriorityRoundsToNearest ==
    assessment.phase = "returned" =>
        assessment.priority =
            Max(1, Min(10, [LOW |-> 2, MEDIUM |-> 5, HIGH |-> 8, CRITICAL |-> 10][assessment.severity]
                           + RoundDiv((assessment.confidence - 500000) * 4, 1000000)))


-----------------------------------------------------------------------------
(* Properties, Part V: correlation *)

\* the anomalies of group g as a set
MemberSet(g) == {Members(g)[n] : n \in DOMAIN Members(g)}

(* C21 (as claimed): a port scan with source X and a DDoS targeting X, at      *)
(* most 2 minutes apart, are placed in one group by correlate_anomalies.       *)
C21_PortScanAndDDoSOnOneAddressGrouped ==
    \A w \in Workers :
        frame[w].phase = "correlated" =>
            \A m, n \in DOMAIN frame[w].all_anomalies :
                LET a == frame[w].all_anomalies[m]
                    b == frame[w].all_anomalies[n]
                IN (/\ a.threat_type = "PORT_SCANNING"
                    /\ b.threat_type = "DDOS"
                    /\ a.source_ip = b.target_ip
                    /\ Abs(a.detection_timestamp - b.detection_timestamp) <= 120)
                   => \E k \in DOMAIN frame[w].groups :
                         {a, b} \subseteq MemberSet(frame[w].groups[k])

\* the confidences of the members of a group, in millionths
MemberConfidences(g) == {10000 * OwnConfidence(a) : a \in MemberSet(g)}

(* C22 (as claimed): a group with at least one related anomaly has a group     *)
(* confidence, as the engine computes it and as the validator recomputes it,   *)
(* at least as high as the confidence of its primary and of every related      *)
(* anomaly.                                                                    *)
C22_GroupConfidenceAtLeastEachMember ==
    \A w \in Workers :
        frame[w].phase = "returned" =>
            \A k \in DOMAIN frame[w].groups :
                LET g == frame[w].groups[k] IN
                g.related_anomalies /= <<>> =>
                    \A c \in MemberConfidences(g) :
                        /\ g.group_confidence >= c
                        /\ validator_group_confidence(g) >= c

(* C23 (as claimed): a group without related anomalies has the confidence of   *)
(* its primary anomaly as its group confidence, under the engine and under     *)
(* the validator, whatever the kind of the primary.                            *)
C23_SingleGroupHasPrimaryConfidence ==
    \A w \in Workers :
        frame[w].phase = "returned" =>
            \A k \in DOMAIN frame[w].groups :
                LET g == frame[w].groups[k] IN
                g.related_anomalies = <<>> =>
                    /\ g.group_confidence = 10000 * OwnConfidence(g.primary_anomaly)
                    /\ validator_group_confidence(g) = 10000 * OwnConfidence(g.primary_anomaly)


-----------------------------------------------------------------------------
(* Properties, Part VI: PortScanningDetector *)

\* the timestamps of the records an anomaly was built from
RecordTimes(a) == {a.connections[n].timestamp : n \in DOMAIN a.connections}

\* the times in T lie within one interval of port_scan_window seconds
WithinOneWindow(T) == \A t1, t2 \in T : t2 - t1 <= port_scan_window

(* C24 (as claimed): detect emits at most one anomaly per source and window:   *)
(* two anomalies of one source never arise from records that all lie within    *)
(* one interval of port_scan_window seconds.                                   *)
C24_OneAnomalyPerSourceAndWindow ==
    \A w \in Workers :
        frame[w].phase = "detected" =>
            \A m, n \in DOMAIN frame[w].all_anomalies :
                LET a == frame[w].all_anomalies[m]
                    b == frame[w].all_anomalies[n]
                IN (m /= n /\ a.source_ip = b.source_ip)
                   => ~WithinOneWindow(RecordTimes(a) \cup RecordTimes(b))

\* the distinct ports source src tries in the window that starts at time t
PortsInWindow(logs, src, t) ==
    {logs[n].destination_port : n \in
        {i \in DOMAIN logs : /\ logs[i].source_ip = src
                              /\ logs[i].timestamp >= t
                              /\ logs[i].timestamp <= t + port_scan_window}}

\* the sources with more than port_threshold distinct ports in some window
\* that starts at one of their records
SourcesOverThreshold(logs) ==
    {logs[i].source_ip : i \in
        {n \in DOMAIN logs :
            Cardinality(PortsInWindow(logs, logs[n].source_ip, logs[n].timestamp))
                > port_threshold}}

(* C25 (as claimed): detect declares a candidate for a source exactly when     *)
(* some interval of at most port_scan_window seconds, wherever it starts in    *)
(* the batch, holds records of the source to more than port_threshold          *)
(* distinct ports.                                                             *)
C25_CandidateIffThresholdExceededInSomeWindow ==
    \A w \in Workers :
        frame[w].phase = "detected" =>
            declared_candidates(frame[w].flow_logs) = SourcesOverThreshold(frame[w].flow_logs)

-----------------------------------------------------------------------------
(* Part VII: the CorrelationStateManager *)

\* the anomaly history Redis holds under key k
StoredHistory(k) == from_dict(store.redis[k].data).anomaly_history

IsSuffix(h, all) ==
    /\ Len(h) <= Len(all)
    /\ h = SubSeq(all, Len(all) - Len(h) + 1, Len(all))

(* C26: after any sequence of update_entity_correlation_state calls, every    *)
(* stored entry's anomaly history has at most max_history_size elements and   *)
(* is made of the entries appended last for its key, in the order they        *)
(* arrived: what is dropped is always the oldest part.                        *)
C26_HistoryIsBoundedSuffixOfAppended ==
    \A k \in Keys :
        store.redis[k].present =>
            /\ Len(StoredHistory(k)) <= max_history_size
            /\ Len(StoredHistory(k)) >= 1
            /\ IsSuffix(StoredHistory(k), store.appended[k])

\* a third anomaly was appended to a history that was full and had never been
\* reset: both context fields survive an update that passed no context
C26_Witness_TruncatedFullHistory ==
    \E k \in Keys :
        /\ store.last.op = "update" /\ store.last.ok /\ store.last.entity_key = k
        /\ store.fresh[k].valid /\ store.fresh[k].delta = NoContext
        /\ store.redis[k].data.correlation_context = [campaign |-> 1, stage |-> 1]
        /\ Len(store.appended[k]) > max_history_size
        /\ Len(StoredHistory(k)) = max_history_size

\* the get that follows a successful update of its key, nothing else having
\* touched the key, returns what the claim says
GetAfterUpdate(k) ==
    LET state == store.last.state
        up == store.fresh[k]
        entry == state.anomaly_history[Len(state.anomaly_history)]
    IN /\ ~state.is_none
       /\ Len(state.anomaly_history) >= 1
       /\ entry.anomaly_id = up.anomaly_data.anomaly_id
       /\ entry.threat_type = up.anomaly_data.threat_type
       /\ entry.confidence_score = up.anomaly_data.confidence_score
       /\ entry.source_ip = up.anomaly_data.source_ip
       /\ entry.destination_ip = up.anomaly_data.destination_ip
       /\ entry.destination_port = up.anomaly_data.destination_port
       /\ \A f \in DOMAIN NoContext :
              state.correlation_context[f] =
                  IF up.delta[f] /= 0 THEN up.delta[f] ELSE up.previous[f]
       /\ state.expiry_time = up.at + state_ttl

\* a get of key k that did not raise, after a successful update of k that
\* nothing has followed, before the time to live of that update has passed
IsGetAfterUpdate(k) ==
    /\ store.last.op = "get" /\ store.last.ok /\ store.last.entity_key = k
    /\ store.fresh[k].valid
    /\ store.clock < store.fresh[k].at + state_ttl

(* C27: after a successful update_entity_correlation_state(k, a) with no      *)
(* operation on k in between, get_entity_correlation_state(k) returns an      *)
(* entry whose last history element carries a's identifier, kind, confidence, *)
(* addresses and port, whose context is the given delta merged over the       *)
(* context stored before, and whose expiry is the update time plus the TTL.   *)
C27_GetReturnsWhatUpdateStored ==
    \A k \in Keys : IsGetAfterUpdate(k) => GetAfterUpdate(k)

\* the same, for updates whose own read of the key did not raise
C27_HoldsWhenTheReadOfTheUpdateSucceeded ==
    \A k \in Keys :
        IsGetAfterUpdate(k) /\ store.fresh[k].read_ok => GetAfterUpdate(k)

(* C28: when instances update one entity key with overlapping calls, no       *)
(* update is lost: once every call has returned and the last one succeeded,   *)
(* having read the key without error, the stored history holds its anomaly    *)
(* and the one appended before it (within the time to live).                  *)
C28_NoLostUpdate ==
    \A k \in Keys :
        LET all == store.appended[k]
            n == Len(all)
        IN  (/\ \A i \in Instances : store.inst[i].pc = "idle"
             /\ store.last.op = "update" /\ store.last.ok /\ store.last.read_ok
             /\ store.last.entity_key = k
             /\ n >= 2
             /\ store.clock < fromisoformat(all[n - 1].timestamp) + state_ttl)
            => \A m \in {n - 1, n} :
                   \E j \in DOMAIN StoredHistory(k) : StoredHistory(k)[j] = all[m]

(* C29: get_entity_correlation_state and get_related_entities never return an *)
(* entry whose last update is state_ttl or more in the past, whether or not a *)
(* sweep has run.                                                             *)
C29_NothingOlderThanTtlReturned ==
    /\ (store.last.op = "get" /\ ~store.last.state.is_none) =>
           store.clock - store.last.state.last_updated < state_ttl
    /\ store.last.op = "related" =>
           \A key \in store.last.related :
               store.clock - fromisoformat(store.redis[key].data.last_updated) < state_ttl

\* a get, which did not raise, of a key written state_ttl ago that no sweep
\* has deleted: nothing is returned
C29_Witness_ExpiredEntryNotReturned ==
    /\ store.last.op = "get" /\ store.last.ok
    /\ store.redis[store.last.entity_key].present
    /\ store.clock - fromisoformat(store.redis[store.last.entity_key].data.last_updated)
           >= state_ttl
    /\ store.last.state.is_none

\* the rate limit of a cleanup_expired_states call that did not fail
RateLimited ==
    IF store.last.since < cleanup_interval
    THEN store.last.deleted = {} /\ store.redis = store.last.redis_before
    ELSE /\ store.last.swept
         /\ store.last.deleted = store.last.expired
         /\ store.redis = redis_delete_all(store.last.redis_before, store.last.expired)

(* C30: cleanup_expired_states is rate-limited: a call less than              *)
(* cleanup_interval after the previous sweep deletes nothing and changes no   *)
(* entry; a call at least cleanup_interval after it deletes exactly the       *)
(* expired entries and leaves the others; the first call after start-up       *)
(* sweeps.                                                                    *)
C30_RateLimitedAndFirstCallSweeps ==
    (store.last.op = "cleanup" /\ store.last.ok) =>
        IF store.last.first
        THEN store.last.swept /\ store.last.deleted = store.last.expired
        ELSE RateLimited

\* the same with the time since construction standing for the previous sweep
C30_RateLimitedSinceConstruction ==
    (store.last.op = "cleanup" /\ store.last.ok) => RateLimited

(* C35: update_entity_correlation_state discards an unexpired history only by *)
(* truncation: after an update of key k that returned success, whether or not *)
(* its read of the store raised, the entry appended to k just before, if its  *)
(* time to live has not run out, is still in the stored history.              *)
C35_EarlierHistoryKeptWhenReadFails ==
    \A k \in Keys :
        LET all == store.appended[k]
            n == Len(all)
        IN  (/\ store.last.op = "update" /\ store.last.ok
             /\ store.last.entity_key = k
             /\ n >= 2
             /\ max_history_size >= 2
             /\ store.clock < fromisoformat(all[n - 1].timestamp) + state_ttl)
            => \E j \in DOMAIN StoredHistory(k) : StoredHistory(k)[j] = all[n - 1]

\* the same for the updates whose read of the store did not raise
C35_HoldsWhenTheReadSucceeded ==
    \A k \in Keys :
        LET all == store.appended[k]
            n == Len(all)
        IN  (/\ store.last.op = "update" /\ store.last.ok /\ store.last.read_ok
             /\ store.last.entity_key = k
             /\ n >= 2
             /\ max_history_size >= 2
             /\ store.clock < fromisoformat(all[n - 1].timestamp) + state_ttl)
            => \E j \in DOMAIN StoredHistory(k) : StoredHistory(k)[j] = all[n - 1]

-----------------------------------------------------------------------------
(* Part VIII: symmetry of the correlation score *)

(* C37: the pairwise correlation score is symmetric: for any two anomalies a  *)
(* and b handed to correlate_anomalies, score(a, b) = score(b, a).            *)
C37_CorrelationScoreSymmetric ==
    \A w \in Workers :
        frame[w].phase = "correlated" =>
            \A m, n \in DOMAIN frame[w].all_anomalies :
                calculate_correlation_score(frame[w].all_anomalies[m],
                                            frame[w].all_anomalies[n])
                = calculate_correlation_score(frame[w].all_anomalies[n],
                                              frame[w].all_anomalies[m])

\* whether two anomalies end up in one group does not depend on which of
\* them was detected first: exchanging their timestamps changes nothing
C37_GroupingIgnoresWhichIsEarlier ==
    \A w \in Workers :
        (frame[w].phase = "correlated" /\ Len(frame[w].all_anomalies) = 2) =>
            LET a == frame[w].all_anomalies[1]
                b == frame[w].all_anomalies[2]
            IN Len(frame[w].groups)
               = Len(correlate_anomalies(
                         <<[a EXCEPT !.detection_timestamp = b.detection_timestamp],
                           [b EXCEPT !.detection_timestamp = a.detection_timestamp]>>))

\* the score is symmetric on the pairs whose two table entries agree
C37_SymmetricWhereTheTableIs ==
    \A w \in Workers :
        frame[w].phase = "correlated" =>
            \A m, n \in DOMAIN frame[w].all_anomalies :
                LET a == frame[w].all_anomalies[m]
                    b == frame[w].all_anomalies[n]
                IN calculate_threat_correlation(a, b) = calculate_threat_correlation(b, a)
                   => calculate_correlation_score(a, b) = calculate_correlation_score(b, a)

-----------------------------------------------------------------------------
(* Part IX: the counters of the CircuitBreaker *)

(* C38: in every reachable state of a CircuitBreaker, with overlapping calls  *)
(* too: a CLOSED breaker has failure_count < failure_threshold; success_count *)
(* is non-zero only in HALF_OPEN and always below success_threshold; neither  *)
(* counter is negative.                                                       *)
C38_CountersWithinTheirStates ==
    /\ breaker.state = CLOSED => breaker.failure_count < failure_threshold
    /\ breaker.success_count /= 0 => breaker.state = HALF_OPEN
    /\ breaker.success_count < success_threshold
    /\ breaker.failure_count >= 0
    /\ breaker.success_count >= 0

\* a breaker on probation, one success short of closing, with every caller
\* inside the wrapped operation
C38_Witness_HalfOpenWithOverlappingCalls ==
    /\ breaker.state = HALF_OPEN
    /\ breaker.success_count = success_threshold - 1
    /\ breaker.success_count > 0
    /\ \A c \in Callers : pc[c] = "running"

\* an invocation of the wrapped operation fails in this step
InvocationFails == \E c \in Callers : FailError(c) \/ FailTimeout(c)

(* C39: a CircuitBreaker recovers: if from some point on no invocation of the *)
(* wrapped operation fails, while time passes and calls keep arriving, then   *)
(* the breaker, OPEN or not at that point, is eventually CLOSED for good.     *)
C39_BreakerRecovers ==
    <>[][~InvocationFails]_vars => <>[](breaker.state = CLOSED)

\* the breaker has opened, has let a call through after recovery_timeout and
\* has closed after success_threshold successes in HALF_OPEN
C39_Witness_ClosedAfterRecovery ==
    /\ breaker.state = CLOSED
    /\ breaker.last_failure_time /= None
    /\ now - breaker.last_failure_time >= recovery_timeout
    /\ succ_run >= success_threshold
    /\ last_call.primary = "ok"

-----------------------------------------------------------------------------
(* Part X: the metrics of the ServiceResilienceManager *)

(* C33: after any sequence of execute_service calls the fallback_calls metric *)
(* equals the number of calls in which the registered fallback was invoked,   *)
(* whether it then succeeded or failed.                                       *)
C33_FallbackCallsCountsInvocations ==
    service.global_metrics.fallback_calls = service.fallback_invoked

\* fallback_calls never exceeds the number of failed calls
C33_FallbackCallsCountsOnlyFailedCalls ==
    /\ service.global_metrics.fallback_calls <= service.global_metrics.failed_calls
    /\ service.global_metrics.fallback_calls <= service.fallback_invoked

-----------------------------------------------------------------------------
(* Part XI: the EventPublisherManager *)

(* C31: publish_anomaly tries the fallback bus only after the primary bus     *)
(* failed for that finding; events_published + events_failed equals the       *)
(* number of findings handed in; failover_count equals the number of calls    *)
(* the fallback bus took; and a call returns false only when the primary and, *)
(* if configured, the fallback both failed.                                   *)
C31_PublishAnomalyCountsAndFailsOver ==
    /\ publisher.metrics.events_published + publisher.metrics.events_failed
           = publisher.calls + publisher.batch_items
    /\ publisher.metrics.failover_count = publisher.fallback_successes
    /\ publisher.last.op = "anomaly" =>
           /\ publisher.last.primary_tried
           /\ publisher.last.fallback_tried =>
                  ~publisher.last.primary_ok /\ publisher.fallback_publisher.present
           /\ ~publisher.last.returned =>
                  /\ ~publisher.last.primary_ok
                  /\ publisher.fallback_publisher.present =>
                         publisher.last.fallback_tried /\ ~publisher.last.fallback_ok
           /\ publisher.last.returned =
                  (publisher.last.primary_ok \/ publisher.last.fallback_ok)

\* a finding the primary bus refused and the fallback bus took, after one
\* that both refused
C31_Witness_FailedOverAfterAFailure ==
    /\ publisher.last.op = "anomaly"
    /\ publisher.last.fallback_ok /\ publisher.last.returned
    /\ publisher.metrics.failover_count = 1
    /\ publisher.metrics.events_failed = 1
    /\ publisher.batch_items = 0

(* C32: publish_batch fails over: with a fallback bus configured, a finding   *)
(* of the batch is counted as failed only after the fallback bus was tried    *)
(* for it as well.                                                            *)
C32_BatchFailuresWereTriedOnFallback ==
    (/\ publisher.last.op = "batch"
     /\ publisher.fallback_publisher.present
     /\ publisher.last.failed > 0)
    => publisher.last.fallback_tried

\* without a fallback bus the failed count is what the primary bus refused
C32_BatchCountsWhatThePrimaryDid ==
    publisher.last.op = "batch" =>
        /\ publisher.last.success + publisher.last.failed = publisher.last.n
        /\ ~publisher.last.fallback_tried


-----------------------------------------------------------------------------
(* Part XII: a disabled model *)

(* C36: after disable_model(m), and until enable_model(m) or                  *)
(* reset_model_errors(m) is called, model m is unavailable and unhealthy and  *)
(* the last detect_ml_anomalies did not invoke it; the health check get_model *)
(* runs when one is due does not make it eligible again.                      *)
C36_DisabledModelStaysOut ==
    \A m \in Models :
        manager.disabled[m] =>
            /\ ~manager.models[m].is_available
            /\ ~manager.model_health[m].is_healthy
            /\ ~manager.last_detection[m].invoked

\* the part of C36 about detect_ml_anomalies alone: a disabled model is not invoked
C36_DisabledModelNotInvoked ==
    \A m \in Models : manager.disabled[m] => ~manager.last_detection[m].invoked

\* what the code does keep: only a health check of m brings a disabled m back
C36_OnlyAHealthCheckBringsItBack ==
    [][\A m \in Models :
        (manager.disabled[m] /\ manager'.disabled[m]
            /\ ~manager.models[m].is_available /\ manager'.models[m].is_available)
        => manager'.model_health[m].since_check = 0]_vars


-----------------------------------------------------------------------------
(* Part XIII: malformed flow records *)

\* the range of a port, and of a packet or byte count
in_port_range(n) == 0 <= n /\ n <= 65535

\* a dict fails a type check: one of its port and counts is not a number
fails_type_check(log) ==
    \/ python_int(dict_get(log.destination_port, IntValue(0))).raised
    \/ python_int(dict_get(log.packets, IntValue(1))).raised
    \/ python_int(dict_get(log.bytes, IntValue(0))).raised

\* a dict fails a range check: its port is outside 0-65535 or a count is negative
fails_range_check(log) ==
    /\ ~fails_type_check(log)
    /\ \/ ~in_port_range(python_int(dict_get(log.destination_port, IntValue(0))).value)
       \/ python_int(dict_get(log.packets, IntValue(1))).value < 0
       \/ python_int(dict_get(log.bytes, IntValue(0))).value < 0

\* the dict in place i of the batch of f is in no anomaly of Tier 1
InNoTier1Anomaly(f, i) ==
    \A j \in DOMAIN Tier1Part(f) :
        \A c \in DOMAIN Tier1Part(f)[j].connections :
            Tier1Part(f)[j].connections[c].timestamp # f.flow_logs[i].timestamp

\* the dict in place i of the batch of f is the flow_log of no anomaly of Tier 2
InNoTier2Anomaly(f, i) ==
    \A j \in DOMAIN Tier2Part(f) : Tier2Part(f)[j].flow_log # <<f.flow_logs[i]>>

(* C34: a flow record that fails a range or type check is skipped: it is in   *)
(* no anomaly of Tier 1 or Tier 2, and Tier 1 finds in the batch what it      *)
(* finds in the batch without the failing records.                            *)
C34_MalformedRecordsSkipped ==
    \A w \in Workers :
        frame[w].phase = "screened" =>
            LET logs == frame[w].flow_logs
                well == SelectSeq(logs, LAMBDA r : ~fails_type_check(r) /\ ~fails_range_check(r))
            IN  /\ Tier1Part(frame[w]) = detect(flow_log_objects(well), LateBatchTime)
                /\ \A i \in DOMAIN logs :
                      (fails_type_check(logs[i]) \/ fails_range_check(logs[i]))
                      => InNoTier1Anomaly(frame[w], i) /\ InNoTier2Anomaly(frame[w], i)

\* what the code does keep: Tier 1 skips the records that fail a type check
C34_Tier1SkipsTypeFailures ==
    \A w \in Workers :
        frame[w].phase = "screened" =>
            LET logs == frame[w].flow_logs
                typed == SelectSeq(logs, LAMBDA r : ~fails_type_check(r))
            IN  /\ Tier1Part(frame[w]) = detect(flow_log_objects(typed), LateBatchTime)
                /\ \A i \in DOMAIN logs :
                      fails_type_check(logs[i]) => InNoTier1Anomaly(frame[w], i)

\* the part of C34 about Tier 1 and range checks alone
C34_Tier1SkipsRangeFailures ==
    \A w \in Workers :
        frame[w].phase = "screened" =>
            \A i \in DOMAIN frame[w].flow_logs :
                fails_range_check(frame[w].flow_logs[i]) => InNoTier1Anomaly(frame[w], i)

\* the part of C34 about Tier 2 and type checks alone
C34_Tier2SkipsTypeFailures ==
    \A w \in Workers :
        frame[w].phase = "screened" =>
            \A i \in DOMAIN frame[w].flow_logs :
                fails_type_check(frame[w].flow_logs[i]) => InNoTier2Anomaly(frame[w], i)

=============================================================================
